---- MODULE Spec2Model ----
(***************************************************************************)
(* A model of vizia_core's Context (crates/vizia_core/src/context/mod.rs): *)
(* the entity tree with its component stores, the focus / capture state,   *)
(* the event queue and the dirty flags, together with the operations       *)
(* remove, focus, focus_with_visibility, emit_to and with_current.         *)
(*                                                                         *)
(* An entity is a pair <<index, generation>>.  The tree and the sparse-set *)
(* stores are keyed by the entity's index, the hash maps (views, bindings) *)
(* by the whole entity.  IdManager, Tree and the stores themselves live in *)
(* the crates vizia_id and vizia_storage; their operations are modelled    *)
(* from the design document.                                               *)
(***************************************************************************)
EXTENDS Integers, Sequences, FiniteSets, TLC

VARIABLES
    cx,        \* the Context: one record field per modelled field of the struct
    last,      \* history: the operation that produced this state and its inputs
    destroyed, \* history: every identity that entity_manager.destroy released
    env        \* around the Context: the event manager's delivery in progress,
               \* the proxy channel with its worker threads, the accessibility adapter

vars == <<cx, last, destroyed, env>>

\* ------------------------------------------------------------------ bounds
MaxIdx == 4      \* entity indices 0 .. MaxIdx-1 (index 0 is root)
MaxLife == 3     \* the specifications that remove entities use the indices below it
MaxGen == 1      \* an index is handed out again while its generation <= MaxGen
MaxStack == 1    \* focus_stack holds at most MaxStack entries
MaxQueue == 3    \* event_queue holds at most MaxQueue events
MaxGlobal == 2   \* global_listeners holds at most MaxGlobal listeners
MaxThemes == 1   \* resource_manager.themes holds at most MaxThemes themes
MaxWorkers == 2  \* at most MaxWorkers threads are spawned
MaxSheets == 1   \* resource_manager.stylesheets holds at most MaxSheets paths

Idx == 0 .. (MaxIdx - 1)

\* ---------------------------------------------------------------- entities
Null == <<-1, 0>>
Root == <<0, 0>>

PseudoFlags == {"FOCUS", "FOCUS_VISIBLE", "FOCUS_WITHIN"}

\* IdManager::is_alive
is_alive(c, e) == e[1] \in Idx /\ c.alive[e[1]] /\ c.gen[e[1]] = e[2]

\* the live identity stored at an index
entity_at(c, i) == <<i, c.gen[i]>>

LiveEntities(c) == {entity_at(c, i) : i \in {j \in Idx : c.alive[j]}}

\* every identity that was ever handed out
KnownEntities(c) ==
    {<<i, g>> : i \in Idx, g \in 0 .. (MaxGen + 1)} \cap
    {e \in Idx \X (0 .. (MaxGen + 1)) : e[2] < c.gen[e[1]] \/ (e[2] = c.gen[e[1]] /\ c.alive[e[1]])}

\* destroy as it would be if the generation did not advance
destroy_keeps_generation(c, e) ==
    IF is_alive(c, e) THEN [c EXCEPT !.alive[e[1]] = FALSE] ELSE c

\* IdManager::destroy: the index is released and its generation advances
destroy(c, e) ==
    IF is_alive(c, e)
    THEN [c EXCEPT !.alive[e[1]] = FALSE, !.gen[e[1]] = @ + 1]
    ELSE c

\* -------------------------------------------------------------------- tree
\* c.tree = [nodes, parent, children, lock]:
\*   nodes    the indices that have a tree entry
\*   parent   nodes other than root -> index of the parent
\*   children nodes -> sequence of child indices, in layout order
\*   lock     the nodes flagged lock_focus_within

RECURSIVE chain(_, _)
chain(t, i) ==
    IF i \notin t.nodes THEN <<>>
    ELSE IF i \in DOMAIN t.parent THEN <<i>> \o chain(t, t.parent[i])
    ELSE <<i>>

\* TreeExt::parent_iter: the entity itself, then its ancestors up to root
parent_iter(c, e) == chain(c.tree, e[1])

SeqToSet(s) == {s[k] : k \in 1 .. Len(s)}

RECURSIVE subtree(_, _)
RECURSIVE forest(_, _)
subtree(t, i) == <<i>> \o forest(t, t.children[i])
forest(t, s) == IF s = <<>> THEN <<>> ELSE subtree(t, Head(s)) \o forest(t, Tail(s))

\* TreeExt::branch_iter: the entity and its descendants, depth first; the
\* subtree of an entity that was already removed is empty
branch_iter(c, e) ==
    IF is_alive(c, e) /\ e[1] \in c.tree.nodes
    THEN LET s == subtree(c.tree, e[1]) IN [k \in 1 .. Len(s) |-> entity_at(c, s[k])]
    ELSE <<>>

\* Tree::lock_focus_within: the nearest of the entity and its ancestors that is
\* flagged lock_focus_within, root when none is
lock_focus_within(c, e) ==
    LET s == parent_iter(c, e)
        hits == {k \in 1 .. Len(s) : s[k] \in c.tree.lock}
    IN IF hits = {} THEN Root
       ELSE entity_at(c, s[CHOOSE k \in hits : \A m \in hits : k <= m])

RemoveFromSeq(s, x) == SelectSeq(s, LAMBDA y : y # x)

Restrict(f, S) == [x \in (DOMAIN f) \cap S |-> f[x]]

\* Tree::add: the entity becomes the last child of the parent
tree_add(t, i, p) ==
    [nodes |-> t.nodes \cup {i},
     parent |-> [x \in (DOMAIN t.parent) \cup {i} |-> IF x = i THEN p ELSE t.parent[x]],
     children |-> [x \in t.nodes \cup {i} |->
                      IF x = i THEN <<>>
                      ELSE IF x = p THEN Append(t.children[x], i)
                      ELSE t.children[x]],
     lock |-> t.lock]

\* Tree::remove: the entity's entry is erased and it is unlinked from its parent
tree_remove(t, i) ==
    IF i \notin t.nodes THEN t
    ELSE [nodes |-> t.nodes \ {i},
          parent |-> Restrict(t.parent, t.nodes \ {i}),
          children |-> [x \in t.nodes \ {i} |-> RemoveFromSeq(t.children[x], i)],
          lock |-> t.lock \ {i}]

\* ------------------------------------------------------------------ events
Event(msg, target, origin, prop) ==
    [message |-> msg, target |-> target, origin |-> origin, propagation |-> prop]

\* emit_to as it would be if it propagated like emit
emit_to_up(c, target, msg) ==
    [c EXCEPT !.event_queue = Append(@, Event(msg, target, c.current, "Up"))]

\* Context::emit_to
emit_to(c, target, msg) ==
    [c EXCEPT !.event_queue = Append(@, Event(msg, target, c.current, "Direct"))]

\* ------------------------------------------------------------------- focus
\* the same as it would be if an absent entry were created
SetFlag_or_insert(pc, i, flag, on) ==
    [x \in (DOMAIN pc) \cup {i} |->
        IF x = i THEN (IF on THEN {flag} ELSE {})
                          \cup (IF i \in DOMAIN pc THEN pc[i] \ {flag} ELSE {})
        ELSE pc[x]]

SetFlag(pc, i, flag, on) ==
    IF i \in DOMAIN pc
    THEN [pc EXCEPT ![i] = IF on THEN @ \cup {flag} ELSE @ \ {flag}]
    ELSE pc

\* set_focus_pseudo_classes as it would be without the loop over the ancestors
set_focus_pseudo_classes_own_only(c, focused, enabled, focus_visible) ==
    LET pc1 == SetFlag(c.pseudo_classes, focused[1], "FOCUS", enabled)
        pc2 == IF ~enabled \/ focus_visible
               THEN SetFlag(pc1, focused[1], "FOCUS_VISIBLE", enabled)
               ELSE pc1
    IN [c EXCEPT !.pseudo_classes = pc2]

\* set_focus_pseudo_classes as it would be if FOCUS_WITHIN were only ever set
set_focus_pseudo_classes_sticky(c, focused, enabled, focus_visible) ==
    LET pc1 == SetFlag(c.pseudo_classes, focused[1], "FOCUS", enabled)
        pc2 == IF ~enabled \/ focus_visible
               THEN SetFlag(pc1, focused[1], "FOCUS_VISIBLE", enabled)
               ELSE pc1
        anc == SeqToSet(parent_iter(c, focused))
        pc3 == [i \in DOMAIN pc2 |->
                   IF i \in anc /\ enabled THEN pc2[i] \cup {"FOCUS_WITHIN"} ELSE pc2[i]]
    IN [c EXCEPT !.pseudo_classes = pc3]

\* Context::set_focus_pseudo_classes
set_focus_pseudo_classes(c, focused, enabled, focus_visible) ==
    LET pc0 == c.pseudo_classes
        pc1 == SetFlag(pc0, focused[1], "FOCUS", enabled)
        pc2 == IF ~enabled \/ focus_visible
               THEN SetFlag(pc1, focused[1], "FOCUS_VISIBLE", enabled)
               ELSE pc1
        anc == SeqToSet(parent_iter(c, focused))
        pc3 == [i \in DOMAIN pc2 |->
                   IF i \in anc
                   THEN (IF enabled THEN pc2[i] \cup {"FOCUS_WITHIN"}
                         ELSE pc2[i] \ {"FOCUS_WITHIN"})
                   ELSE pc2[i]]
    IN [c EXCEPT !.pseudo_classes = pc3]

\* focus_with_visibility forcing the passes only when the focus moves
focus_with_visibility_if_moved(c, focus_visible) ==
    LET old_focus == c.focused
        new_focus == c.current
        c1 == set_focus_pseudo_classes(c, old_focus, FALSE, focus_visible)
        c2 == IF c1.current # c1.focused
              THEN [emit_to(emit_to(c1, old_focus, "FocusOut"), new_focus, "FocusIn")
                       EXCEPT !.focused = c1.current]
              ELSE c1
        c3 == set_focus_pseudo_classes(c2, new_focus, TRUE, focus_visible)
    IN IF c.current # c.focused
       THEN [c3 EXCEPT !.needs_relayout = TRUE, !.needs_redraw = TRUE,
                       !.needs_restyle = TRUE]
       ELSE c3

\* Context::focus_with_visibility
focus_with_visibility(c, focus_visible) ==
    LET old_focus == c.focused
        new_focus == c.current
        c1 == set_focus_pseudo_classes(c, old_focus, FALSE, focus_visible)
        c2 == IF c1.current # c1.focused
              THEN [emit_to(emit_to(c1, old_focus, "FocusOut"), new_focus, "FocusIn")
                       EXCEPT !.focused = c1.current]
              ELSE c1
        c3 == set_focus_pseudo_classes(c2, new_focus, TRUE, focus_visible)
    IN [c3 EXCEPT !.needs_relayout = TRUE, !.needs_redraw = TRUE, !.needs_restyle = TRUE]

\* focus never asking for visible focus
focus_invisible(c) == focus_with_visibility(c, FALSE)

\* Context::focus
focus(c) ==
    LET focused == c.focused
        old_focus_visible ==
            focused[1] \in DOMAIN c.pseudo_classes
            /\ "FOCUS_VISIBLE" \in c.pseudo_classes[focused[1]]
    IN focus_with_visibility(c, old_focus_visible)

\* Context::set_selected
set_selected(c, flag) ==
    [c EXCEPT !.pseudo_classes = SetFlag(@, c.current[1], "SELECTED", flag),
              !.needs_restyle = TRUE, !.needs_relayout = TRUE, !.needs_redraw = TRUE]

\* emit as it would be if it put the event at the front of the queue
emit_front(c, msg) ==
    [c EXCEPT !.event_queue = <<Event(msg, c.current, c.current, "Up")>> \o @]

\* Context::emit
emit(c, msg) ==
    [c EXCEPT !.event_queue = Append(@, Event(msg, c.current, c.current, "Up"))]

\* emit_custom stamping the event with the current entity as its origin
emit_custom_stamped(c, event) ==
    [c EXCEPT !.event_queue = Append(@, [event EXCEPT !.origin = c.current])]

\* Context::emit_custom
emit_custom(c, event) == [c EXCEPT !.event_queue = Append(@, event)]

\* Context::add_listener::<W>: the map holds one listener per entity, the
\* closure remembers the view type it downcasts to
add_listener(c, W) ==
    [c EXCEPT !.listeners =
        [x \in (DOMAIN @) \cup {c.current} |-> IF x = c.current THEN W ELSE @[x]]]

\* add_global_listener as it would be if the new listener went first
add_global_listener_first(c, l) == [c EXCEPT !.global_listeners = <<l>> \o @]

\* Context::add_global_listener
add_global_listener(c, l) == [c EXCEPT !.global_listeners = Append(@, l)]

\* the closures this model passes to with_current
call(c, f) ==
    CASE f.op = "focus" -> focus(c)
      [] f.op = "focus_with_visibility" -> focus_with_visibility(c, f.fv)
      [] f.op = "set_selected" -> set_selected(c, f.flag)
      [] f.op = "emit" -> emit(c, f.msg)
      [] f.op = "emit_to" -> emit_to(c, f.target, f.msg)
      [] f.op = "add_listener" -> add_listener(c, f.W)
      [] f.op = "add_global_listener" -> add_global_listener(c, f.l)

\* Context::with_current
with_current(c, e, f) ==
    LET prev == c.current
        c1 == call([c EXCEPT !.current = e], f)
    IN [c1 EXCEPT !.current = prev]

\* ------------------------------------------------------------------ remove
\* the delete list as it would be without the descendants
delete_list_self_only(c, entity) ==
    IF branch_iter(c, entity) = <<>> THEN <<>> ELSE <<entity>>

\* Context::remove, line 281
delete_list(c, entity) == branch_iter(c, entity)

\* the flags as they would be set without the test of the delete list
mark_dirty_always(c, dl) ==
    [c EXCEPT !.needs_restyle = TRUE, !.needs_relayout = TRUE, !.needs_redraw = TRUE]

\* the flags as they would be if they were assigned the result of the test
mark_dirty_assign(c, dl) ==
    [c EXCEPT !.needs_restyle = (dl # <<>>), !.needs_relayout = (dl # <<>>),
              !.needs_redraw = (dl # <<>>)]

\* Context::remove, lines 283-287
mark_dirty(c, dl) ==
    IF dl # <<>>
    THEN [c EXCEPT !.needs_restyle = TRUE, !.needs_relayout = TRUE, !.needs_redraw = TRUE]
    ELSE c

\* Context::remove, lines 290-294: the binding is taken out, its removal hook
\* runs, and the binding is put back
run_binding_hook(c, e) == c

\* the focus restore of Context::remove, whichever entity has the focus
restore_focus_eager(c, e, dl) ==
    IF lock_focus_within(c, e) \in SeqToSet(dl)
    THEN IF c.focus_stack # <<>>
         THEN LET new_focus == c.focus_stack[Len(c.focus_stack)]
                  c1 == [c EXCEPT !.focus_stack = SubSeq(@, 1, Len(@) - 1)]
              IN with_current(c1, new_focus, [op |-> "focus"])
         ELSE c
    ELSE c

\* Context::remove, lines 305-311
restore_focus(c, e, dl) ==
    IF c.focused = e /\ lock_focus_within(c, e) \in SeqToSet(dl)
    THEN IF c.focus_stack # <<>>
         THEN LET new_focus == c.focus_stack[Len(c.focus_stack)]
                  c1 == [c EXCEPT !.focus_stack = SubSeq(@, 1, Len(@) - 1)]
              IN with_current(c1, new_focus, [op |-> "focus"])
         ELSE c
    ELSE c

\* Context::remove, lines 313-319
teardown(c, e) ==
    LET c1 == [c EXCEPT !.tree = tree_remove(@, e[1]),
                        !.cache = @ \ {e[1]},
                        !.draw_cache = @ \ {e[1]},
                        !.pseudo_classes = Restrict(@, Idx \ {e[1]}),
                        !.data = @ \ {e[1]},
                        !.role = Restrict(@, Idx \ {e[1]}),
                        !.navigable = @ \ {e[1]},
                        !.disabled = Restrict(@, Idx \ {e[1]}),
                        !.hidden = Restrict(@, Idx \ {e[1]}),
                        !.views = @ \ {e},
                        !.widget = Restrict(@, (DOMAIN @) \ {e})]
    IN destroy(c1, e)

\* the capture as it would be left without lines 321-323
clear_captured_never(c, e) == c

\* Context::remove, lines 321-323
clear_captured(c, e) ==
    IF c.captured = e THEN [c EXCEPT !.captured = Null] ELSE c

\* Context::remove, the body of the loop (lines 289-324)
remove_entity(c, e, dl) ==
    clear_captured(teardown(restore_focus(run_binding_hook(c, e), e, dl), e), e)

\* the delete list as it would be walked without rev()
Reverse_not(s) == s

Reverse(s) == [k \in 1 .. Len(s) |-> s[Len(s) + 1 - k]]

RECURSIVE remove_loop(_, _, _)
remove_loop(c, todo, dl) ==
    IF todo = <<>> THEN c
    ELSE remove_loop(remove_entity(c, Head(todo), dl), Tail(todo), dl)

\* Context::remove
remove(c, entity) ==
    LET dl == delete_list(c, entity)
    IN remove_loop(mark_dirty(c, dl), Reverse(dl), dl)

\* ------------------------------------------------------------------- state
\* what `last` holds after a step of the environment (building, passes, input)
Idle == [op |-> "idle", e |-> Null, fv |-> FALSE, old |-> Null, oldf |-> FALSE,
         cap |-> Null, stk |-> <<>>, del |-> {}, pre |-> {}, res |-> "Ok"]

\* the surroundings at start: nothing in delivery, no proxy event in the channel,
\* no worker thread, and an accessibility adapter that was given no batch
NoEnv == [cur |-> <<>>, globals |-> <<>>, todo |-> <<>>, log |-> <<>>, served |-> <<>>,
          order |-> <<>>, emitted |-> 0,
          chan |-> <<>>, workers |-> {}, active |-> FALSE, established |-> {},
          initial |-> <<>>, ext |-> {}, unreadable |-> {},
          removal |-> <<>>]

\* Context::new
Init ==
    /\ cx = [alive |-> [i \in Idx |-> i = 0],
             gen |-> [i \in Idx |-> 0],
             tree |-> [nodes |-> {0}, parent |-> <<>>, children |-> [i \in {0} |-> <<>>],
                       lock |-> {}],
             current |-> Root,
             views |-> {},
             data |-> {0},
             bindings |-> {},
             event_queue |-> <<>>,
             pseudo_classes |-> <<>>,
             cache |-> {0},
             draw_cache |-> {},
             captured |-> Null,
             hovered |-> Root,
             focused |-> Root,
             focus_stack |-> <<>>,
             needs_restyle |-> FALSE,
             needs_relayout |-> FALSE,
             needs_redraw |-> FALSE,
             listeners |-> <<>>,
             global_listeners |-> <<>>,
             widget |-> <<>>,
             role |-> <<>>,
             navigable |-> {},
             reaccess |-> {},
             tree_updates |-> <<>>,
             themes |-> 0,
             images |-> {},
             event_proxy |-> FALSE,
             window_has_focus |-> TRUE,
             stylesheets |-> <<>>,
             disabled |-> <<>>,
             hidden |-> <<>>,
             ignore_default_theme |-> FALSE]
    /\ last = Idle
    /\ destroyed = {}
    /\ env = NoEnv

\* whether the entry at an index of the pseudo-class store has a flag
FlagAt(c, i, flag) ==
    i \in DOMAIN c.pseudo_classes /\ flag \in c.pseudo_classes[i]

HasFlag(c, e, flag) == FlagAt(c, e[1], flag)

\* the operation of this step, its inputs, and what it found
Note(op, e, fv, del, pre) ==
    [op |-> op, e |-> e, fv |-> fv, old |-> cx.focused,
     oldf |-> HasFlag(cx, cx.focused, "FOCUS"), cap |-> cx.captured,
     stk |-> cx.focus_stack, del |-> del, pre |-> pre, res |-> "Ok"]

\* a focus transition appends two events
Room == Len(cx.event_queue) + 2 <= MaxQueue

\* entity creation: IdManager::create, Tree::add and the stores' inserts.
\*   "bare"  an entity with a tree and a cache entry only
\*   "view"  an entity built by a view: an entry in every store
\*   "popup" a view that locks focus within itself
create(c, i, p, k) ==
    LET e == <<i, c.gen[i]>> IN
    [c EXCEPT
        !.alive[i] = TRUE,
        !.tree = [tree_add(@, i, p) EXCEPT !.lock = IF k = "popup" THEN @ \cup {i} ELSE @],
        !.cache = @ \cup {i},
        !.pseudo_classes =
            IF k = "bare" THEN @
            ELSE [x \in (DOMAIN @) \cup {i} |-> IF x = i THEN {} ELSE @[x]],
        !.draw_cache = IF k = "bare" THEN @ ELSE @ \cup {i},
        !.data = IF k = "bare" THEN @ ELSE @ \cup {i},
        !.views = IF k = "bare" THEN @ ELSE @ \cup {e},
        !.bindings = IF k = "bare" THEN @ ELSE @ \cup {e}]

CreateKind(k, n) ==
    \E i \in Idx, p \in Idx :
        /\ i < n
        /\ ~cx.alive[i] /\ cx.gen[i] <= MaxGen
        /\ cx.alive[p] /\ p \in cx.tree.nodes
        /\ cx' = create(cx, i, p, k)
        /\ last' = Idle
        /\ UNCHANGED <<destroyed, env>>

CreateBare == CreateKind("bare", MaxLife)

CreateView == CreateKind("view", MaxLife)

\* a popup: Handle::lock_focus_to_within flags the entity and records the
\* focus it will give back
CreatePopup ==
    /\ Len(cx.focus_stack) < MaxStack
    /\ \E i \in Idx, p \in Idx :
        /\ i < MaxLife
        /\ ~cx.alive[i] /\ cx.gen[i] <= MaxGen
        /\ cx.alive[p] /\ p \in cx.tree.nodes
        /\ cx' = [create(cx, i, p, "popup") EXCEPT !.focus_stack = Append(@, cx.focused)]
        /\ last' = Idle
        /\ UNCHANGED <<destroyed, env>>

\* Style::add for an entity that has no pseudo-class entry yet
StyleAdd ==
    \E e \in LiveEntities(cx) :
        /\ e[1] \notin DOMAIN cx.pseudo_classes
        /\ cx' = [cx EXCEPT !.pseudo_classes =
                     [x \in (DOMAIN @) \cup {e[1]} |-> IF x = e[1] THEN {} ELSE @[x]]]
        /\ last' = Idle
        /\ UNCHANGED <<destroyed, env>>

\* with_current(e, |cx| cx.focus())
Focus ==
    \E e \in LiveEntities(cx) :
        /\ Room
        /\ cx' = with_current(cx, e, [op |-> "focus"])
        /\ last' = Note("focus", e, HasFlag(cx, cx.focused, "FOCUS_VISIBLE"), {}, {})
        /\ UNCHANGED <<destroyed, env>>

\* with_current(e, |cx| cx.focus_with_visibility(fv))
FocusWithVisibility ==
    \E e \in LiveEntities(cx), fv \in BOOLEAN :
        /\ Room
        /\ cx' = with_current(cx, e, [op |-> "focus_with_visibility", fv |-> fv])
        /\ last' = Note("focus_with_visibility", e, fv, {}, {})
        /\ UNCHANGED <<destroyed, env>>

Stores == {"tree", "cache", "draw_cache", "style", "data", "views"}

\* whether store s holds an entry for entity e
HasEntry(c, s, e) ==
    \/ s = "tree" /\ e[1] \in c.tree.nodes
    \/ s = "cache" /\ e[1] \in c.cache
    \/ s = "draw_cache" /\ e[1] \in c.draw_cache
    \/ s = "style" /\ e[1] \in DOMAIN c.pseudo_classes
    \/ s = "data" /\ e[1] \in c.data
    \/ s = "views" /\ e \in c.views

\* cx.remove(e), for a live entity or for one that was removed before
Remove ==
    \E e \in KnownEntities(cx) :
        /\ Room
        /\ LET dl == SeqToSet(branch_iter(cx, e)) IN
           /\ cx' = remove(cx, e)
           /\ last' = Note("remove", e, FALSE, dl,
                           {s \in Stores : \E d \in dl : HasEntry(cx, s, d)})
           /\ destroyed' = destroyed \cup dl
           /\ UNCHANGED env

\* a window-event handler captures the mouse for an entity, or releases it
SetCaptured ==
    \E e \in LiveEntities(cx) \cup {Null} :
        /\ cx.captured # e
        /\ cx' = [cx EXCEPT !.captured = e]
        /\ last' = Idle
        /\ UNCHANGED <<destroyed, env>>

\* the dispatcher takes the event at the head of the queue
Dispatch ==
    /\ cx.event_queue # <<>>
    /\ cx' = [cx EXCEPT !.event_queue = Tail(@)]
    /\ last' = Idle
    /\ UNCHANGED <<destroyed, env>>

\* the style, layout and draw passes clear the flag each of them serves
RunPasses ==
    /\ cx.needs_restyle \/ cx.needs_relayout \/ cx.needs_redraw
    /\ cx' = [cx EXCEPT !.needs_restyle = FALSE, !.needs_relayout = FALSE,
                        !.needs_redraw = FALSE]
    /\ last' = Idle
    /\ UNCHANGED <<destroyed, env>>

\* ---------------------------------------------------------- specifications
\* the life cycle of entities: building, focusing, capturing, removing
Next ==
    \/ CreateBare
    \/ CreateView
    \/ Focus
    \/ FocusWithVisibility
    \/ Remove
    \/ SetCaptured
    \/ Dispatch
    \/ RunPasses

Spec == Init /\ [][Next]_vars

\* focus calls on a fixed tree: the tree is built first, and every focus call
\* sets needs_restyle, which nothing in this specification clears
Built == cx.needs_restyle

BuildBare == ~Built /\ CreateKind("bare", MaxIdx)

BuildStyle == ~Built /\ StyleAdd

FocusNext ==
    \/ BuildBare
    \/ BuildStyle
    \/ Focus
    \/ FocusWithVisibility
    \/ Dispatch

FocusSpec == Init /\ [][FocusNext]_vars

\* popups that lock focus, and the focus they give back when they are removed
RestoreNext ==
    \/ CreateView
    \/ CreatePopup
    \/ Focus
    \/ Remove
    \/ Dispatch

RestoreSpec == Init /\ [][RestoreNext]_vars

\* ------------------------------------------------------------ properties
FocusOps == {"focus", "focus_with_visibility"}

AllDirty(c) == c.needs_restyle /\ c.needs_relayout /\ c.needs_redraw

NoneDirty(c) == ~c.needs_restyle /\ ~c.needs_relayout /\ ~c.needs_redraw

\* the ancestors of an entity, the entity itself excluded
Ancestors(c, e) == SeqToSet(parent_iter(c, e)) \ {e[1]}

\* C1: after remove(E) returns, none of the tree, cache, draw-cache, style,
\* model-data and view stores holds an entry for E or a former descendant of E.
C1_RemoveErasesStores ==
    last.op = "remove" =>
        \A d \in last.del : \A s \in Stores : ~HasEntry(cx, s, d)

\* a subtree of two or more entities, with entries in all six stores, was removed
C1_Witness ==
    last.op = "remove" /\ Cardinality(last.del) >= 2 /\ last.pre = Stores

\* C2: after remove, `focused` is a live entity or the null entity, never an
\* entity that was destroyed (stated for the removal of an entity other than
\* root; C4 is about root).
C2_FocusNeverDangles ==
    (last.op = "remove" /\ last.e # Root) =>
        (cx.focused = Null \/ is_alive(cx, cx.focused))

\* the entries of a focus stack that are live, oldest first
LiveEntries(c, stk) == SelectSeq(stk, LAMBDA x : is_alive(c, x))

\* C3: when the focused entity is removed, focus goes to the most recent entry
\* of focus_stack that is still live, and is left unset when there is none
\* (stated for the removal of an entity other than root).
C3_RestoreSkipsStale ==
    (last.op = "remove" /\ last.e # Root /\ last.old \in last.del) =>
        LET live == LiveEntries(cx, last.stk)
        IN cx.focused = IF live = <<>> THEN Null ELSE live[Len(live)]

\* C4: the tree is single-rooted and acyclic, every live entity other than root
\* has exactly one parent and is reachable from root, and root is never
\* destroyed.
C4_TreeRooted ==
    /\ is_alive(cx, Root) /\ 0 \in cx.tree.nodes
    /\ 0 \notin DOMAIN cx.tree.parent
    /\ cx.tree.nodes = {i \in Idx : cx.alive[i]}
    /\ \A i \in cx.tree.nodes \ {0} :
          /\ i \in DOMAIN cx.tree.parent
          /\ 0 \in SeqToSet(chain(cx.tree, i))
          /\ Cardinality({p \in cx.tree.nodes : i \in SeqToSet(cx.tree.children[p])}) = 1
          /\ i \in SeqToSet(cx.tree.children[cx.tree.parent[i]])

\* C5: an identity that remove destroyed is never live again: its index comes
\* back from create only with a strictly greater generation.
C5_NoResurrection ==
    \A e \in destroyed :
        /\ ~is_alive(cx, e)
        /\ cx.alive[e[1]] => cx.gen[e[1]] > e[2]

\* the index of a destroyed identity is in use again
C5_Witness ==
    \E e \in destroyed : cx.alive[e[1]] /\ e[1] \in cx.tree.nodes

\* C6: after remove(E), `captured` is the null entity if the capturing entity
\* was in the removed subtree, and unchanged otherwise.
C6_CaptureCleared ==
    last.op = "remove" =>
        cx.captured = IF last.cap \in last.del THEN Null ELSE last.cap

\* a descendant of the removed entity held the capture
C6_Witness ==
    /\ last.op = "remove" /\ last.cap \in last.del /\ last.cap # last.e
    /\ cx.captured = Null

\* C7: remove of an entity that was already removed changes nothing and sets
\* no dirty flag; remove of a live entity sets all three flags.
C7_RemoveOfRemovedIsNoOp ==
    [][last'.op = "remove" =>
          IF is_alive(cx, last'.e) THEN AllDirty(cx') ELSE cx' = cx]_vars

\* an entity that was removed before is removed again while no flag is set
C7_Witness ==
    /\ last.op = "remove" /\ last.del = {} /\ ~is_alive(cx, last.e)
    /\ NoneDirty(cx)

\* the message, target and propagation of a queued event
Routing(ev) == <<ev.message, ev.target, ev.propagation>>

\* C8: a focus transition from A to B appends FocusOut to A and then FocusIn to
\* B, both Direct, exactly if A # B; if A = B nothing is queued and `focused`
\* stays.
C8_FocusEvents ==
    [][last'.op \in FocusOps =>
          LET A == cx.focused
              B == last'.e
              q == cx.event_queue
              r == cx'.event_queue
          IN IF A # B
             THEN /\ Len(r) = Len(q) + 2
                  /\ SubSeq(r, 1, Len(q)) = q
                  /\ Routing(r[Len(q) + 1]) = <<"FocusOut", A, "Direct">>
                  /\ Routing(r[Len(q) + 2]) = <<"FocusIn", B, "Direct">>
                  /\ cx'.focused = B
             ELSE r = q /\ cx'.focused = A]_vars

\* a transition between two entities, made while an event was waiting
C8_Witness ==
    /\ last.op \in FocusOps /\ last.old # last.e
    /\ Len(cx.event_queue) = 3
    /\ Routing(cx.event_queue[2]) = <<"FocusOut", last.old, "Direct">>
    /\ Routing(cx.event_queue[3]) = <<"FocusIn", last.e, "Direct">>

\* the case of C9: A was focused, then B # A is, and both have an entry
C9_Case ==
    /\ last.op \in FocusOps /\ last.old # last.e /\ last.oldf
    /\ last.old[1] \in DOMAIN cx.pseudo_classes
    /\ last.e[1] \in DOMAIN cx.pseudo_classes

\* C9 as stated: A has neither FOCUS nor FOCUS_VISIBLE, B has both, and every
\* ancestor of B has FOCUS_WITHIN.
C9_AsStated ==
    C9_Case =>
        /\ ~HasFlag(cx, last.old, "FOCUS") /\ ~HasFlag(cx, last.old, "FOCUS_VISIBLE")
        /\ HasFlag(cx, last.e, "FOCUS") /\ HasFlag(cx, last.e, "FOCUS_VISIBLE")
        /\ \A a \in Ancestors(cx, last.e) : FlagAt(cx, a, "FOCUS_WITHIN")

\* C9, amended: A has neither FOCUS nor FOCUS_VISIBLE, B has FOCUS, B has
\* FOCUS_VISIBLE if the transition was made with focus visibility, and every
\* ancestor of B that has a pseudo-class entry has FOCUS_WITHIN.
C9_FocusMoves ==
    C9_Case =>
        /\ ~HasFlag(cx, last.old, "FOCUS") /\ ~HasFlag(cx, last.old, "FOCUS_VISIBLE")
        /\ HasFlag(cx, last.e, "FOCUS")
        /\ last.fv => HasFlag(cx, last.e, "FOCUS_VISIBLE")
        /\ \A a \in Ancestors(cx, last.e) \cap DOMAIN cx.pseudo_classes :
              "FOCUS_WITHIN" \in cx.pseudo_classes[a]

\* the transition was made with focus visibility, to an entity two levels deep
\* whose ancestors have an entry
C9_Witness ==
    /\ C9_Case /\ last.fv
    /\ Cardinality(Ancestors(cx, last.e) \cap DOMAIN cx.pseudo_classes) >= 2

\* C10 as stated: after focus calls on a fixed tree every ancestor of the
\* focused entity has FOCUS_WITHIN, and no entity other than the focused one
\* and its ancestors has it.
C10_AsStated ==
    Built =>
        /\ \A a \in Ancestors(cx, cx.focused) : FlagAt(cx, a, "FOCUS_WITHIN")
        /\ \A i \in DOMAIN cx.pseudo_classes :
              "FOCUS_WITHIN" \in cx.pseudo_classes[i]
                  => i \in SeqToSet(parent_iter(cx, cx.focused))

\* C10, amended: after focus calls on a fixed tree every ancestor of the
\* focused entity that has a pseudo-class entry has FOCUS_WITHIN, and no entity
\* other than the focused one and its ancestors has it.
C10_FocusWithin ==
    Built =>
        /\ \A a \in Ancestors(cx, cx.focused) \cap DOMAIN cx.pseudo_classes :
              "FOCUS_WITHIN" \in cx.pseudo_classes[a]
        /\ \A i \in DOMAIN cx.pseudo_classes :
              "FOCUS_WITHIN" \in cx.pseudo_classes[i]
                  => i \in SeqToSet(parent_iter(cx, cx.focused))

\* focus moved between two branches: an ancestor of the old focus alone lost
\* FOCUS_WITHIN, the ancestor both share kept it
C10_Witness ==
    /\ Built /\ last.op \in FocusOps /\ last.old # last.e /\ last.oldf
    /\ \E i \in Ancestors(cx, last.old) \cap DOMAIN cx.pseudo_classes :
          /\ i \notin SeqToSet(parent_iter(cx, last.e))
          /\ "FOCUS_WITHIN" \notin cx.pseudo_classes[i]
    /\ \E i \in Ancestors(cx, last.old) \cap Ancestors(cx, last.e) :
          FlagAt(cx, i, "FOCUS_WITHIN")

\* ------------------------------------------------- dirty flags and reaccess
\* Context::need_redraw
need_redraw(c) == [c EXCEPT !.needs_redraw = TRUE]

\* Context::need_restyle
need_restyle(c) == [c EXCEPT !.needs_restyle = TRUE]

\* Context::need_relayout
need_relayout(c) == [c EXCEPT !.needs_relayout = TRUE]

\* Context::reload_styles, with no stylesheet file registered: nothing happens
\* without a theme, otherwise the rules are parsed again and all flags are set
\* the Context it leaves and what the caller gets: "Ok", "Err", or "Panic" when
\* the call is left by a panic; gone are the files that cannot be read. A
\* stylesheet that cannot be read makes it return the error before any flag
\* is set
reload_styles(c, gone) ==
    IF c.themes = 0 /\ c.stylesheets = <<>> THEN [c |-> c, res |-> "Ok"]
    ELSE IF \E k \in 1 .. Len(c.stylesheets) : c.stylesheets[k] \in gone
         THEN [c |-> c, res |-> "Err"]
         ELSE [c |-> [c EXCEPT !.needs_restyle = TRUE, !.needs_relayout = TRUE,
                               !.needs_redraw = TRUE],
               res |-> "Ok"]

\* Result::expect: a panic when the result is an error
expect(r) == IF r.res = "Err" THEN [r EXCEPT !.res = "Panic"] ELSE r

\* Context::add_theme
add_theme(c, gone) == expect(reload_styles([c EXCEPT !.themes = @ + 1], gone))

\* Context::remove_user_themes: the themes are cleared, then the default
\* layout and, unless it is to be ignored, the default theme are added
remove_user_themes(c, gone) ==
    LET r1 == add_theme([c EXCEPT !.themes = 0], gone) IN
    IF r1.res = "Panic" \/ c.ignore_default_theme THEN r1
    ELSE add_theme(r1.c, gone)

\* Context::add_stylesheet: the file is read before the path is kept
add_stylesheet(c, path, gone) ==
    IF path \in gone THEN [c |-> c, res |-> "Err"]
    ELSE [c |-> [c EXCEPT !.stylesheets = Append(@, path)], res |-> "Ok"]

\* Context::load_image
load_image(c, path) ==
    [c EXCEPT !.images = @ \cup {path}, !.needs_redraw = TRUE, !.needs_relayout = TRUE]

\* the view types of the model
Widgets == {"Label", "Knob"}

\* the image paths of the model
Paths == {"a.png"}

\* the messages views emit, in the order the model hands them out
Msgs == <<"m1", "m2", "m3">>

NeedRedraw ==
    /\ cx' = need_redraw(cx)
    /\ last' = Note("need_redraw", cx.current, FALSE, {}, {})
    /\ UNCHANGED <<destroyed, env>>

NeedRestyle ==
    /\ cx' = need_restyle(cx)
    /\ last' = Note("need_restyle", cx.current, FALSE, {}, {})
    /\ UNCHANGED <<destroyed, env>>

NeedRelayout ==
    /\ cx' = need_relayout(cx)
    /\ last' = Note("need_relayout", cx.current, FALSE, {}, {})
    /\ UNCHANGED <<destroyed, env>>

\* with_current(e, |cx| cx.set_selected(flag))
SetSelected ==
    \E e \in LiveEntities(cx), flag \in BOOLEAN :
        /\ cx' = with_current(cx, e, [op |-> "set_selected", flag |-> flag])
        /\ last' = Note("set_selected", e, flag, {}, {})
        /\ UNCHANGED <<destroyed, env>>

\* with_current(e, |cx| cx.emit(msg)), outside any delivery
Emit ==
    \E e \in LiveEntities(cx) :
        /\ Len(cx.event_queue) < MaxQueue
        /\ env.emitted < Len(Msgs)
        /\ cx' = with_current(cx, e, [op |-> "emit", msg |-> Msgs[env.emitted + 1]])
        /\ env' = [env EXCEPT !.emitted = @ + 1]
        /\ last' = Note("emit", e, FALSE, {}, {})
        /\ UNCHANGED destroyed

\* cx.emit_custom(event), for an event a view built itself
EmitCustom ==
    \E t \in LiveEntities(cx), prop \in {"Direct", "Up"} :
        /\ Len(cx.event_queue) < MaxQueue
        /\ env.emitted < Len(Msgs)
        /\ cx' = emit_custom(cx, Event(Msgs[env.emitted + 1], t, cx.current, prop))
        /\ env' = [env EXCEPT !.emitted = @ + 1]
        /\ last' = Note("emit_custom", t, FALSE, {}, {})
        /\ UNCHANGED destroyed

\* the view type the listener of an entity downcasts to, "none" without listener
ListenerOf(c, e) == IF e \in DOMAIN c.listeners THEN c.listeners[e] ELSE "none"

\* with_current(e, |cx| cx.add_listener::<W>(..)), as a view's build does
AddListenerOf(Ws) ==
    \E e \in LiveEntities(cx), W \in Ws :
        /\ ListenerOf(cx, e) # W
        /\ cx' = with_current(cx, e, [op |-> "add_listener", W |-> W])
        /\ last' = Note("add_listener", e, FALSE, {}, {})
        /\ UNCHANGED <<destroyed, env>>

AddListener == AddListenerOf(Widgets)

AddLabelListener == AddListenerOf({"Label"})

\* with_current(e, |cx| cx.add_global_listener(..)); the listeners are numbered
\* in the order the program text registers them
AddGlobalListener ==
    \E e \in LiveEntities(cx) :
        /\ Len(cx.global_listeners) < MaxGlobal
        /\ cx' = with_current(cx, e, [op |-> "add_global_listener",
                                      l |-> Len(cx.global_listeners) + 1])
        /\ last' = Note("add_global_listener", e, FALSE, {}, {})
        /\ UNCHANGED <<destroyed, env>>

AddTheme ==
    /\ cx.themes < MaxThemes
    /\ LET r == add_theme(cx, env.unreadable) IN
       /\ cx' = r.c
       /\ last' = [Note("add_theme", cx.current, FALSE, {}, {}) EXCEPT !.res = r.res]
    /\ UNCHANGED <<destroyed, env>>

ReloadStyles ==
    /\ LET r == reload_styles(cx, env.unreadable) IN
       /\ cx' = r.c
       /\ last' = [Note("reload_styles", cx.current, FALSE, {}, {}) EXCEPT !.res = r.res]
    /\ UNCHANGED <<destroyed, env>>

LoadImage ==
    \E path \in Paths :
        /\ cx' = load_image(cx, path)
        /\ last' = Note("load_image", cx.current, FALSE, {}, {})
        /\ UNCHANGED <<destroyed, env>>

\* a single view under root, built once
BuildOne == destroyed = {} /\ CreateKind("view", 2)

\* the mutation operations of the core, and the passes that serve the flags
DirtyNext ==
    \/ BuildOne
    \/ NeedRedraw
    \/ NeedRestyle
    \/ NeedRelayout
    \/ Focus
    \/ FocusWithVisibility
    \/ SetSelected
    \/ Remove
    \/ Emit
    \/ EmitCustom
    \/ AddLabelListener
    \/ AddTheme
    \/ ReloadStyles
    \/ LoadImage
    \/ RunPasses

DirtySpec == Init /\ [][DirtyNext]_vars

MutationOps ==
    {"need_redraw", "need_restyle", "need_relayout", "focus", "focus_with_visibility",
     "set_selected", "remove", "emit", "emit_custom", "add_listener", "add_theme",
     "reload_styles", "load_image"}

\* C11: no call of need_*, focus, focus_with_visibility, set_selected, remove,
\* emit*, add_listener, reload_styles or load_image changes needs_restyle,
\* needs_relayout or needs_redraw from true to false.
C11_FlagsMonotone ==
    [][last'.op \in MutationOps =>
          /\ cx.needs_restyle => cx'.needs_restyle
          /\ cx.needs_relayout => cx'.needs_relayout
          /\ cx.needs_redraw => cx'.needs_redraw]_vars

\* remove of an entity that was removed before ran while all three flags were
\* set: it sets none, and all are still set
C11_Witness ==
    /\ last.op = "remove" /\ last.del = {} /\ last.e \in destroyed
    /\ AllDirty(cx)

\* C12: focus and focus_with_visibility add the old and the new focus target to
\* the reaccess set, set_selected adds the current entity, and remove adds the
\* parent whose children changed.
C12_MutationsMarkReaccess ==
    [][/\ last'.op \in FocusOps => {cx.focused[1], last'.e[1]} \subseteq cx'.reaccess
       /\ last'.op = "set_selected" => last'.e[1] \in cx'.reaccess
       /\ (last'.op = "remove" /\ last'.del # {} /\ last'.e # Root)
             => cx.tree.parent[last'.e[1]] \in cx'.reaccess]_vars

\* ---------------------------------------------------------- event delivery
\* the closure as it would be with an unchecked downcast
listener_closure_unchecked(W, V, eff) == eff

\* the closure add_listener stores (lines 366-370), applied to a view handler
\* of type V: the effect of the user callback if the downcast to W succeeds
listener_closure(W, V, eff) == IF V = W THEN eff ELSE "none"

\* the type of the view of an entity, "none" for an entity without view
ViewOf(c, e) ==
    IF e \notin c.views THEN "none"
    ELSE IF e \in DOMAIN c.widget THEN c.widget[e] ELSE "View"

\* the entities an event is delivered to, in order: the target alone, or for Up
\* propagation the target and then each ancestor in turn
deliver_path(c, ev) ==
    IF ~(is_alive(c, ev.target) /\ ev.target[1] \in c.tree.nodes) THEN <<>>
    ELSE IF ev.propagation = "Up"
         THEN LET s == parent_iter(c, ev.target)
              IN [k \in 1 .. Len(s) |-> entity_at(c, s[k])]
         ELSE <<ev.target>>

\* the delivery in progress, if any
InFlight == env.cur # <<>> /\ ~env.cur[1].done

\* a view of type W is built under a live parent; it gets the lowest free index
BuildWidget ==
    \E i \in Idx, p \in Idx, W \in Widgets :
        /\ i < MaxLife
        /\ ~cx.alive[i] /\ cx.gen[i] <= MaxGen
        /\ \A j \in 0 .. (i - 1) : cx.alive[j]
        /\ cx.alive[p] /\ p \in cx.tree.nodes
        /\ LET e == <<i, cx.gen[i]>> IN
           cx' = [create(cx, i, p, "view") EXCEPT !.widget =
                     [x \in (DOMAIN @) \cup {e} |-> IF x = e THEN W ELSE @[x]]]
        /\ last' = Idle
        /\ UNCHANGED <<destroyed, env>>

\* the dispatcher takes the event at the head of the queue and fixes whom it
\* will be delivered to
TakeEvent ==
    /\ ~InFlight
    /\ cx.event_queue # <<>>
    /\ LET ev == Head(cx.event_queue)
           path == deliver_path(cx, ev)
       IN /\ cx' = [cx EXCEPT !.event_queue = Tail(@)]
          /\ env' = [env EXCEPT
                        !.cur = <<[ev |-> ev, consumed |-> FALSE, at |-> Null,
                                   path |-> path, all_globals |-> cx.global_listeners,
                                   done |-> FALSE]>>,
                        !.globals = cx.global_listeners,
                        !.todo = path,
                        !.log = <<>>,
                        !.served = Append(@, ev.message)]
    /\ last' = Idle
    /\ UNCHANGED destroyed

\* what a delivery adds to the order in which events were delivered
Delivered(order, msg) ==
    IF order # <<>> /\ order[Len(order)] = msg THEN order ELSE Append(order, msg)

\* step (1) of a delivery: the next global listener runs
DeliverGlobal ==
    /\ InFlight
    /\ env.globals # <<>>
    /\ \E eff \in {"none", "consume"} :
          env' = [env EXCEPT
                     !.cur[1].consumed = @ \/ eff = "consume",
                     !.globals = Tail(@),
                     !.log = Append(@, [kind |-> "global", who |-> Head(env.globals)]),
                     !.order = Delivered(@, env.cur[1].ev.message)]
    /\ last' = Idle
    /\ UNCHANGED <<cx, destroyed>>

\* what a handler does to the Context when it runs for an entity: nothing, or
\* emit a message of its own
handler_effect(c, e, eff) ==
    IF eff = "emit" /\ env.emitted < Len(Msgs) /\ Len(c.event_queue) < MaxQueue
    THEN with_current(c, e, [op |-> "emit", msg |-> Msgs[env.emitted + 1]])
    ELSE c

\* the recipients as they would be left if consumption were ignored
next_todo_ignores_consumed(todo, consumed, prop) == Tail(todo)

\* the recipients left after an entity was served: a consumed Up event goes to
\* no further ancestor
next_todo(todo, consumed, prop) ==
    IF consumed /\ prop = "Up" THEN <<>> ELSE Tail(todo)

\* steps (2) and (3) of a delivery at the next entity: its listener, through the
\* downcast, then the event method of its view; a consumed Up event goes no
\* further up
Visit ==
    /\ InFlight
    /\ env.globals = <<>>
    /\ env.todo # <<>>
    /\ \E effL \in {"call", "consume"}, effH \in {"none", "consume", "emit"} :
          LET e == Head(env.todo)
              cur == env.cur[1]
              V == ViewOf(cx, e)
              W == ListenerOf(cx, e)
              ran == IF W # "none" /\ V # "none" THEN listener_closure(W, V, effL)
                     ELSE "none"
              did == IF V # "none" THEN effH ELSE "none"
              mid == cur.consumed \/ ran = "consume"
              after == mid \/ did = "consume"
              c1 == handler_effect(cx, e, did)
          IN /\ cx' = c1
             /\ env' = [env EXCEPT
                          !.cur[1].consumed = after,
                          !.cur[1].at = IF ~cur.consumed /\ after THEN e ELSE @,
                          !.todo = next_todo(@, after, cur.ev.propagation),
                          !.log = Append(@, [kind |-> "entity", who |-> e,
                                             listener |-> W, view |-> V,
                                             called |-> ran # "none",
                                             handled |-> V # "none",
                                             before |-> cur.consumed, mid |-> mid,
                                             after |-> after]),
                          !.order = Delivered(@, cur.ev.message),
                          !.emitted = IF c1 = cx THEN @ ELSE @ + 1]
             /\ last' = IF c1 = cx THEN Idle
                        ELSE Note("handler_emit", e, FALSE, {}, {})
    /\ UNCHANGED destroyed

\* every recipient was served: the delivery is over
Finish ==
    /\ InFlight
    /\ env.globals = <<>>
    /\ env.todo = <<>>
    /\ env' = [env EXCEPT !.cur[1].done = TRUE]
    /\ last' = Idle
    /\ UNCHANGED <<cx, destroyed>>

\* cx.remove(e) between two deliveries
RemoveBetween == ~InFlight /\ Remove

\* the application builds its views and registers their listeners before the
\* first event is emitted
Setup == env.emitted = 0 /\ destroyed = {}

SetupWidget == Setup /\ BuildWidget

SetupListener == Setup /\ AddListener

SetupView == Setup /\ BuildOne

SetupLabelListener == Setup /\ AddLabelListener

\* typed views with typed listeners, Up events and the handlers' own emissions
EventNext ==
    \/ SetupWidget
    \/ SetupListener
    \/ Emit
    \/ TakeEvent
    \/ Visit
    \/ Finish

EventSpec == Init /\ [][EventNext]_vars

\* global listeners, events of both propagation modes, and removal
GlobalNext ==
    \/ SetupView
    \/ SetupLabelListener
    \/ AddGlobalListener
    \/ Emit
    \/ EmitCustom
    \/ TakeEvent
    \/ DeliverGlobal
    \/ Visit
    \/ Finish
    \/ RemoveBetween

GlobalSpec == Init /\ [][GlobalNext]_vars

\* the deliveries of the current event to entities, and to global listeners
EntityLog == SelectSeq(env.log, LAMBDA r : r.kind = "entity")

GlobalLog == SelectSeq(env.log, LAMBDA r : r.kind = "global")

IsPrefix(a, b) == Len(a) <= Len(b) /\ SubSeq(b, 1, Len(a)) = a

C14_GlobalsFirst ==
    /\ [](/\ \A k \in 1 .. Len(cx.global_listeners) : cx.global_listeners[k] = k
          /\ env.cur # <<>> =>
                /\ \A i \in 1 .. Len(env.log), j \in 1 .. Len(env.log) :
                      (i < j /\ env.log[j].kind = "global") => env.log[i].kind = "global"
                /\ IsPrefix([n \in 1 .. Len(GlobalLog) |-> GlobalLog[n].who],
                            env.cur[1].all_globals)
                /\ (EntityLog # <<>> \/ env.cur[1].done)
                      => Len(GlobalLog) = Len(env.cur[1].all_globals))
    /\ [][IsPrefix(cx.global_listeners, cx'.global_listeners)]_vars

\* after a removal, both global listeners ran, in order, before a view handler
C14_Witness ==
    /\ env.cur # <<>> /\ destroyed # {}
    /\ Len(GlobalLog) = 2 /\ Len(EntityLog) >= 1
    /\ EntityLog[1].handled /\ EntityLog[1].listener # "none"

\* C15: the listener of an entity invokes the user callback only if the entity's
\* view is of the listener's type W; for another view type nothing is invoked,
\* the consumed marker stays as it was, and the view handler still runs.
C15_ListenerDowncast ==
    \A n \in 1 .. Len(EntityLog) :
        LET r == EntityLog[n] IN
        (r.listener # "none" /\ r.view # "none") =>
            IF r.listener = r.view THEN r.called
            ELSE ~r.called /\ r.mid = r.before /\ r.handled

\* a Knob met a listener for Label (or the reverse) while the event was not
\* consumed, and the view handler consumed it afterwards
C15_Witness ==
    \E n \in 1 .. Len(EntityLog) :
        LET r == EntityLog[n] IN
        /\ r.listener # "none" /\ r.view # "none" /\ r.listener # r.view
        /\ ~r.before /\ ~r.mid /\ r.after

\* C16: after remove destroyed an entity, the listeners map holds no listener
\* for it.
C16_ListenerDiesWithEntity ==
    \A e \in DOMAIN cx.listeners : e \notin destroyed

\* the messages of the queued events, oldest first
QueueMsgs == [k \in 1 .. Len(cx.event_queue) |-> cx.event_queue[k].message]

\* C17: events are taken in the order they were enqueued, each exactly once, and
\* deliveries of different events never interleave: an event emitted during a
\* delivery waits in the queue until that delivery is over.
C17_FifoNoInterleave ==
    /\ env.served \o QueueMsgs = SubSeq(Msgs, 1, env.emitted)
    /\ IsPrefix(env.order, env.served)
    /\ Len(env.served) - Len(env.order) <= 1
    /\ InFlight => env.cur[1].ev.message = env.served[Len(env.served)]

\* a handler emitted an event while the event it was handling still had an
\* ancestor to be delivered to
C17_Witness ==
    /\ last.op = "handler_emit" /\ InFlight /\ env.todo # <<>>
    /\ Len(env.served) = 2 /\ cx.event_queue # <<>>

\* ------------------------------------------------------------ worker threads
\* spawn as it would be if the proxy were made for root
spawn_for_root(c) == [current |-> Root, event_proxy |-> c.event_proxy]

\* Context::spawn: the ContextProxy handed to the new thread
spawn(c) == [current |-> c.current, event_proxy |-> c.event_proxy]

\* the backend gives the Context the proxy of its event loop
SetEventProxy ==
    /\ ~cx.event_proxy
    /\ cx' = [cx EXCEPT !.event_proxy = TRUE]
    /\ last' = Idle
    /\ UNCHANGED <<destroyed, env>>

\* with_current(e, |cx| cx.spawn(..)): a thread starts, owning its proxy
Spawn ==
    \E e \in LiveEntities(cx) :
        /\ Cardinality(env.workers) < MaxWorkers
        /\ LET c1 == [cx EXCEPT !.current = e]
               w == [by |-> e, had |-> cx.event_proxy, proxy |-> spawn(c1)]
           IN /\ w \notin env.workers
              /\ env' = [env EXCEPT !.workers = @ \cup {w}]
        /\ last' = Note("spawn", e, FALSE, {}, {})
        /\ UNCHANGED <<cx, destroyed>>

\* a worker thread emits through its proxy: the event goes into the channel of
\* the event loop; a proxy without channel cannot emit
WorkerEmit ==
    \E w \in env.workers :
        /\ w.proxy.event_proxy
        /\ env.emitted < Len(Msgs)
        /\ env' = [env EXCEPT
                      !.chan = Append(@, Event(Msgs[env.emitted + 1], w.proxy.current,
                                               w.proxy.current, "Up")),
                      !.emitted = @ + 1]
        /\ last' = Note("proxy_emit", w.proxy.current, FALSE, {}, {})
        /\ UNCHANGED <<cx, destroyed>>

\* the event loop of the owning thread, between two deliveries, takes the next
\* event of the channel and puts it into the queue
PickUp ==
    /\ ~InFlight
    /\ env.chan # <<>>
    /\ Len(cx.event_queue) < MaxQueue
    /\ cx' = emit_custom(cx, Head(env.chan))
    /\ env' = [env EXCEPT !.chan = Tail(@)]
    /\ last' = Idle
    /\ UNCHANGED destroyed

ProxyNext ==
    \/ SetupView
    \/ SetEventProxy
    \/ Spawn
    \/ WorkerEmit
    \/ PickUp
    \/ TakeEvent
    \/ Visit
    \/ Finish

\* the event loop keeps running: it picks up, takes and delivers whenever it can
ProxySpec ==
    /\ Init /\ [][ProxyNext]_vars
    /\ WF_vars(PickUp) /\ WF_vars(TakeEvent) /\ WF_vars(Visit) /\ WF_vars(Finish)

\* the messages waiting in the channel
ChanMsgs == {env.chan[k].message : k \in 1 .. Len(env.chan)}

\* C18: an event a worker thread sent through its proxy is eventually taken by
\* the dispatcher of the owning thread; deliveries of different events never
\* interleave; a worker's step leaves the Context as it is; and the proxy holds
\* only the entity that was current at spawn and the Context's channel.
C18_ProxyEvents ==
    /\ \A k \in 1 .. Len(Msgs) :
          (Msgs[k] \in ChanMsgs) ~> (Msgs[k] \in SeqToSet(env.served))
    /\ [](IsPrefix(env.order, env.served) /\ Len(env.served) - Len(env.order) <= 1)
    /\ [](\A w \in env.workers :
             /\ DOMAIN w.proxy = {"current", "event_proxy"}
             /\ w.proxy.current = w.by
             /\ w.proxy.event_proxy = w.had)
    /\ [][last'.op = "proxy_emit" => cx' = cx]_vars

\* an event sent by the worker of a view was delivered to that view and went on
\* to root
C18_Witness ==
    /\ env.cur # <<>> /\ env.cur[1].done
    /\ \E w \in env.workers :
          /\ w.by # Root /\ w.had
          /\ env.cur[1].ev.origin = w.proxy.current
    /\ Len(EntityLog) = 2 /\ EntityLog[1].handled

\* ---------------------------------------------------------- accessibility
Roles == {"Unknown", "Button"}

\* Entity::accesskit_id: the node id of an entity
NodeId(e) == [of |-> e, part |-> 0]

\* the id of the synthetic node a view adds for a part of itself
ExtraId(e) == [of |-> e, part |-> 1]

\* NodeId(0), the focus of a batch when the window has no input focus
NodeId0 == [of |-> Null, part |-> 0]

\* View::accessibility: the nodes a view adds to its entity's node; a Knob adds
\* one node for its handle, the other views add none
view_accessibility(c, e) ==
    IF ViewOf(c, e) = "Knob"
    THEN <<[id |-> ExtraId(e), role |-> "Button", focusable |-> FALSE, child_ids |-> <<>>,
            disabled |-> FALSE, hidden |-> FALSE]>>
    ELSE <<>>

\* store.get(entity), with the value the code takes for an absent entry
Lookup(store, i, default) == IF i \in DOMAIN store THEN store[i] ELSE default

RoleOf(c, e) == IF e[1] \in DOMAIN c.role THEN c.role[e[1]] ELSE "Unknown"

\* Abilities::NAVIGABLE of an entity, false when it has no abilities entry
Navigable(c, e) == e[1] \in c.navigable

\* get_access_node: the node of an entity and the nodes its view added; the
\* node's children are the ids of the added nodes, then the tree children
get_access_node(c, e) ==
    LET extra == IF e \in c.views THEN view_accessibility(c, e) ELSE <<>>
        kids == c.tree.children[e[1]]
        children == [k \in 1 .. Len(kids) |-> NodeId(entity_at(c, kids[k]))]
        child_ids == [k \in 1 .. Len(extra) |-> extra[k].id] \o children
    IN [node |-> [id |-> NodeId(e), role |-> RoleOf(c, e),
                  focusable |-> Navigable(c, e), child_ids |-> child_ids,
                  disabled |-> Lookup(c.disabled, e[1], FALSE),
                  hidden |-> Lookup(c.hidden, e[1], FALSE)],
        children |-> extra]

\* get_access_node, the views store it leaves: the view of the entity is taken
\* out for the call of its accessibility hook and put back when the hook
\* returns; when the hook panics the view, a local of the call, is dropped
get_access_node_views(views, e, outcome) ==
    IF e \notin views THEN views
    ELSE IF outcome = "panic" THEN views \ {e}
    ELSE (views \ {e}) \cup {e}

RECURSIVE views_after(_, _)
\* the views store after get_access_node returned for each of some entities
views_after(views, es) ==
    IF es = <<>> THEN views
    ELSE views_after(get_access_node_views(views, Head(es), "ok"), Tail(es))

\* LayoutTreeIterator::full: the entities of the tree in layout order
LayoutTreeIterator_full(c) ==
    IF 0 \notin c.tree.nodes THEN <<>>
    ELSE LET s == subtree(c.tree, 0) IN [k \in 1 .. Len(s) |-> entity_at(c, s[k])]

\* the incremental pass as it would be if it left no node out
skipped_never(c, e, n) == FALSE

\* whether the incremental pass leaves a node out
skipped(c, e, n) == n.node.role = "Unknown" /\ ~Navigable(c, e)

RECURSIVE initial_nodes_filtered(_, _)
\* the loop of the initial build as it would be with the filter of the
\* incremental pass
initial_nodes_filtered(c, es) ==
    IF es = <<>> THEN <<>>
    ELSE LET n == get_access_node(c, Head(es)) IN
         (IF skipped(c, Head(es), n) THEN <<>> ELSE <<n.node>> \o n.children)
             \o initial_nodes_filtered(c, Tail(es))

RECURSIVE initial_nodes(_, _)
\* the loop of initial_accessibility_system: the node of each entity, then the
\* nodes its view added
initial_nodes(c, es) ==
    IF es = <<>> THEN <<>>
    ELSE LET n == get_access_node(c, Head(es)) IN
         (<<n.node>> \o n.children) \o initial_nodes(c, Tail(es))

\* initial_accessibility_system: one batch, with Tree::new(root)
initial_accessibility_system(c) ==
    [nodes |-> initial_nodes(c, LayoutTreeIterator_full(c)),
     tree |-> <<NodeId(Root)>>,
     focus |-> NodeId(Root)]

\* the incremental pass as it would be if it took every entity for marked
in_reaccess_always(c, e) == TRUE

\* whether the incremental pass is to make the node of an entity again
in_reaccess(c, e) == e[1] \in c.reaccess

RECURSIVE access_updates(_, _)
\* the loop of accessibility_system pushing each batch in front of the others
access_updates_reversed(c, es) ==
    IF es = <<>> THEN <<>>
    ELSE LET e == Head(es)
             n == get_access_node(c, e)
         IN access_updates(c, Tail(es))
                \o (IF ~in_reaccess(c, e) \/ skipped(c, e, n) THEN <<>>
                    ELSE <<[nodes |-> <<n.node>> \o n.children,
                            tree |-> <<>>,
                            focus |-> IF c.window_has_focus THEN NodeId(c.focused)
                                      ELSE NodeId0]>>)

\* the loop of accessibility_system: one batch for each entity of the reaccess
\* set, in layout order, unless its node is left out
access_updates(c, es) ==
    IF es = <<>> THEN <<>>
    ELSE LET e == Head(es)
             n == get_access_node(c, e)
         IN (IF ~in_reaccess(c, e) \/ skipped(c, e, n) THEN <<>>
             ELSE <<[nodes |-> <<n.node>> \o n.children,
                     tree |-> <<>>,
                     focus |-> IF c.window_has_focus THEN NodeId(c.focused) ELSE NodeId0]>>)
                \o access_updates(c, Tail(es))

\* accessibility_system
accessibility_system(c) ==
    IF c.reaccess = {} THEN c
    ELSE [c EXCEPT !.tree_updates = @ \o access_updates(c, LayoutTreeIterator_full(c)),
                   !.views = views_after(@, SelectSeq(LayoutTreeIterator_full(c),
                                                      LAMBDA e : in_reaccess(c, e))),
                   !.reaccess = {}]

\* the ids of the top-level entries of a batch
TopIds(b) == {b.nodes[k].id : k \in 1 .. Len(b.nodes)}

\* the ids the nodes of a batch list as children
ChildIds(b) == UNION {SeqToSet(b.nodes[k].child_ids) : k \in 1 .. Len(b.nodes)}

\* Handle::role: the role of an entity is set and its node is to be made again
SetRole ==
    \E e \in LiveEntities(cx), r \in Roles \ {"Unknown"} :
        /\ RoleOf(cx, e) # r
        /\ cx' = [cx EXCEPT
                    !.role = [x \in (DOMAIN @) \cup {e[1]} |-> IF x = e[1] THEN r ELSE @[x]],
                    !.reaccess = @ \cup {e[1]}]
        /\ last' = Idle
        /\ UNCHANGED <<destroyed, env>>

\* Handle::navigable
SetNavigable ==
    \E e \in LiveEntities(cx) :
        /\ ~Navigable(cx, e)
        /\ cx' = [cx EXCEPT !.navigable = @ \cup {e[1]}, !.reaccess = @ \cup {e[1]}]
        /\ last' = Idle
        /\ UNCHANGED <<destroyed, env>>

\* Style::needs_access_update
MarkReaccess ==
    \E e \in LiveEntities(cx) :
        /\ e[1] \notin cx.reaccess
        /\ cx' = [cx EXCEPT !.reaccess = @ \cup {e[1]}]
        /\ last' = Idle
        /\ UNCHANGED <<destroyed, env>>

\* a view is built, before or after the initial build: the new entity and its
\* parent, whose children changed, are to get their nodes made again
BuildMarked ==
    \E i \in Idx, p \in Idx, W \in Widgets :
        /\ i < MaxLife
        /\ ~cx.alive[i] /\ cx.gen[i] <= MaxGen
        /\ \A j \in 0 .. (i - 1) : cx.alive[j]
        /\ cx.alive[p] /\ p \in cx.tree.nodes
        /\ LET e == <<i, cx.gen[i]>> IN
           cx' = [create(cx, i, p, "view") EXCEPT
                     !.widget = [x \in (DOMAIN @) \cup {e} |-> IF x = e THEN W ELSE @[x]],
                     !.reaccess = @ \cup {i, p}]
        /\ last' = Idle
        /\ UNCHANGED <<destroyed, env>>

\* the platform's tree after it was given a batch: the children of each node
\* of the batch replace those it had, a later entry of an id after an earlier
apply_batch(ext, b) ==
    LET ids == TopIds(b)
        at(i) == CHOOSE k \in 1 .. Len(b.nodes) :
                     /\ b.nodes[k].id = i
                     /\ \A j \in (k + 1) .. Len(b.nodes) : b.nodes[j].id # i
    IN {r \in ext : r.id \notin ids}
           \cup {[id |-> i, child_ids |-> b.nodes[at(i)].child_ids] : i \in ids}

RECURSIVE apply_batches(_, _)
apply_batches(ext, bs) ==
    IF bs = <<>> THEN ext ELSE apply_batches(apply_batch(ext, Head(bs)), Tail(bs))

\* the adapter is activated: the initial build runs and its batch goes to the
\* platform
InitialBuild ==
    /\ ~env.active
    /\ LET b == initial_accessibility_system(cx) IN
       env' = [env EXCEPT !.active = TRUE, !.initial = <<b>>, !.established = TopIds(b),
                          !.ext = apply_batch(@, b)]
    /\ cx' = [cx EXCEPT !.views = views_after(@, LayoutTreeIterator_full(cx))]
    /\ last' = Note("initial_accessibility_system", Root, FALSE, {}, {})
    /\ UNCHANGED destroyed

\* the incremental pass of a frame, once the adapter is active
AccessibilitySystem ==
    /\ env.active
    /\ cx.tree_updates = <<>>
    /\ cx' = accessibility_system(cx)
    /\ last' = Note("accessibility_system", Root, FALSE, cx.reaccess, {})
    /\ UNCHANGED <<destroyed, env>>

RECURSIVE AllTopIds(_)
\* the ids of the top-level entries of a sequence of batches
AllTopIds(bs) == IF bs = <<>> THEN {} ELSE TopIds(Head(bs)) \cup AllTopIds(Tail(bs))

\* the backend hands the batches of tree_updates to the platform
Drain ==
    /\ cx.tree_updates # <<>>
    /\ env' = [env EXCEPT !.established = @ \cup AllTopIds(cx.tree_updates),
                          !.ext = apply_batches(@, cx.tree_updates)]
    /\ cx' = [cx EXCEPT !.tree_updates = <<>>]
    /\ last' = Idle
    /\ UNCHANGED destroyed

AccessNext ==
    \/ BuildMarked
    \/ SetRole
    \/ SetNavigable
    \/ MarkReaccess
    \/ InitialBuild
    \/ AccessibilitySystem
    \/ Drain

AccessSpec == Init /\ [][AccessNext]_vars

\* the top-level ids of a batch, in order
IdSeq(b) == [k \in 1 .. Len(b.nodes) |-> b.nodes[k].id]

\* C19: the batch of the initial build has exactly one top-level entry for each
\* entity of the tree, in layout order and whatever its role and navigability,
\* besides them only the nodes the views added, and its tree marker and focus
\* are the id of root.
C19_InitialBuildComplete ==
    last.op = "initial_accessibility_system" =>
        LET b == env.initial[1]
            ids == IdSeq(b)
            order == LayoutTreeIterator_full(cx)
        IN /\ \A e \in LiveEntities(cx) :
                Cardinality({k \in 1 .. Len(ids) : ids[k] = NodeId(e)}) = 1
           /\ SelectSeq(ids, LAMBDA i : i.part = 0)
                = [k \in 1 .. Len(order) |-> NodeId(order[k])]
           /\ {i \in SeqToSet(ids) : i.part # 0}
                = {ExtraId(e) : e \in {x \in LiveEntities(cx) : ViewOf(cx, x) = "Knob"}}
           /\ b.tree = <<NodeId(Root)>>
           /\ b.focus = NodeId(Root)

\* the initial build ran on a tree with a Knob and with an entity that has no
\* role and is not navigable
C19_Witness ==
    /\ last.op = "initial_accessibility_system"
    /\ \E e \in LiveEntities(cx) : ViewOf(cx, e) = "Knob"
    /\ \E e \in LiveEntities(cx) : e # Root /\ RoleOf(cx, e) = "Unknown" /\ ~Navigable(cx, e)
    /\ \E e \in LiveEntities(cx) : RoleOf(cx, e) # "Unknown"
    /\ Len(env.initial[1].nodes) >= 4

\* C20: every id a node of an emitted batch lists as a child is a top-level
\* entry of the same batch or of a batch emitted before it.
C20_ChildrenEstablished ==
    /\ env.initial # <<>> => ChildIds(env.initial[1]) \subseteq TopIds(env.initial[1])
    /\ \A k \in 1 .. Len(cx.tree_updates) :
          ChildIds(cx.tree_updates[k])
              \subseteq env.established \cup AllTopIds(SubSeq(cx.tree_updates, 1, k))

\* whether an entity has neither a role nor the NAVIGABLE ability
Plain(c, e) == RoleOf(c, e) = "Unknown" /\ ~Navigable(c, e)

\* C21: every top-level entry of every batch an incremental pass emits belongs
\* to an entity that was in the reaccess set when the pass began; for an entity
\* that was not, the pass emits no entry.
C21_OnlyMarkedEmitted ==
    [][last'.op = "accessibility_system" =>
          \A k \in 1 .. Len(cx'.tree_updates) :
              \A i \in TopIds(cx'.tree_updates[k]) : i.of[1] \in cx.reaccess]_vars

\* a pass has emitted a batch, and none for an entity that has a role but was
\* not marked
C21_Witness ==
    /\ last.op = "accessibility_system"
    /\ cx.tree_updates # <<>>
    /\ \E e \in LiveEntities(cx) :
          /\ ~Plain(cx, e) /\ e[1] \notin last.del
          /\ NodeId(e) \notin AllTopIds(cx.tree_updates)

\* C22: the initial build emits a node for every entity that has neither a
\* role nor the NAVIGABLE ability; an incremental pass emits no entry and no
\* batch for such an entity, also when it is marked.
C22_PlainEntityAsymmetry ==
    /\ [](last.op = "initial_accessibility_system" =>
            \A e \in LiveEntities(cx) :
                Plain(cx, e) => NodeId(e) \in TopIds(env.initial[1]))
    /\ [][last'.op = "accessibility_system" =>
            \A e \in LiveEntities(cx) :
                (Plain(cx, e) /\ e[1] \in cx.reaccess) =>
                    \A k \in 1 .. Len(cx'.tree_updates) :
                        \A i \in TopIds(cx'.tree_updates[k]) : i.of # e]_vars

\* an incremental pass found such an entity marked, one the initial build had
\* emitted, and emitted a batch for another entity only
C22_Witness ==
    /\ last.op = "accessibility_system"
    /\ Len(cx.tree_updates) = 1
    /\ \E e \in LiveEntities(cx) :
          /\ e # Root /\ Plain(cx, e) /\ e[1] \in last.del
          /\ NodeId(e) \in TopIds(env.initial[1])

\* ------------------------------------------- the synchronizer and its tree
\* the window gains or loses the input focus
SetWindowFocus ==
    /\ cx' = [cx EXCEPT !.window_has_focus = ~@]
    /\ last' = Idle
    /\ UNCHANGED <<destroyed, env>>

\* the entities of a sequence that come before an entity
Before(es, e) ==
    LET k == CHOOSE j \in 1 .. Len(es) : es[j] = e IN SubSeq(es, 1, k - 1)

\* the initial build, when the accessibility hook of the view of an entity
\* panics: the build is left by unwinding and returns no batch
InitialBuildPanics ==
    \E e \in SeqToSet(LayoutTreeIterator_full(cx)) \cap cx.views :
        /\ ~env.active
        /\ cx' = [cx EXCEPT !.views =
                     get_access_node_views(
                         views_after(@, Before(LayoutTreeIterator_full(cx), e)), e, "panic")]
        /\ last' = Note("get_access_node", e, FALSE, {}, {})
        /\ UNCHANGED <<destroyed, env>>

\* the incremental pass, when the hook of the view of a marked entity panics:
\* the batches of the entities before it were pushed, the set is not cleared
AccessibilitySystemPanics ==
    \E e \in SeqToSet(LayoutTreeIterator_full(cx)) \cap cx.views :
        /\ env.active
        /\ cx.tree_updates = <<>>
        /\ in_reaccess(cx, e)
        /\ LET done == Before(LayoutTreeIterator_full(cx), e) IN
           cx' = [cx EXCEPT
                     !.tree_updates = @ \o access_updates(cx, done),
                     !.views = get_access_node_views(
                                   views_after(@, SelectSeq(done, LAMBDA x : in_reaccess(cx, x))),
                                   e, "panic")]
        /\ last' = Note("get_access_node", e, FALSE, cx.reaccess, {})
        /\ UNCHANGED <<destroyed, env>>

\* views are built until the first entity is removed
SyncBuild == destroyed = {} /\ BuildMarked

SyncNext ==
    \/ SyncBuild
    \/ SetRole
    \/ Remove
    \/ InitialBuild
    \/ AccessibilitySystem
    \/ Drain
    \/ InitialBuildPanics
    \/ AccessibilitySystemPanics

\* tree edits, passes of the synchronizer, and hooks that panic
SyncSpec == Init /\ [][SyncNext]_vars

FocusSyncNext ==
    \/ BuildOne
    \/ SetRole
    \/ Focus
    \/ Dispatch
    \/ SetWindowFocus
    \/ InitialBuild
    \/ AccessibilitySystem
    \/ Drain

\* focus changes of the application and of the window, and the synchronizer
FocusSyncSpec == Init /\ [][FocusSyncNext]_vars

\* C23: every batch carries as its focus the id of the focused entity when
\* the window has the input focus, and NodeId(0) when it has not: the batch of
\* the initial build and the batches of an incremental pass alike.
C23_BatchFocus ==
    LET want == IF cx.window_has_focus THEN NodeId(cx.focused) ELSE NodeId0 IN
    /\ last.op = "initial_accessibility_system" => env.initial[1].focus = want
    /\ last.op = "accessibility_system" =>
          \A k \in 1 .. Len(cx.tree_updates) : cx.tree_updates[k].focus = want

\* C24: the views store maps every entity to the same view after node
\* construction as before it, whether the accessibility hook returned or
\* panicked.
C24_ViewRestored ==
    [][last'.op \in {"initial_accessibility_system", "accessibility_system",
                     "get_access_node"} => cx'.views = cx.views]_vars

\* the platform's tree once the batches of tree_updates are applied
External == apply_batches(env.ext, cx.tree_updates)

\* the ids of the entities among the children of a node
EntityChildren(r) == SelectSeq(r.child_ids, LAMBDA i : i.part = 0)

\* C25: after a synchronizer pass the children last emitted for every live
\* entity are its children in the tree, and no node of a live entity lists a
\* destroyed entity as a child.
C25_NoDrift ==
    last.op = "accessibility_system" =>
        \A r \in External :
            is_alive(cx, r.id.of) /\ r.id.part = 0 =>
                /\ EntityChildren(r) =
                     [k \in 1 .. Len(cx.tree.children[r.id.of[1]]) |->
                         NodeId(entity_at(cx, cx.tree.children[r.id.of[1]][k]))]
                /\ \A k \in 1 .. Len(r.child_ids) : r.child_ids[k].of \notin destroyed

\* ------------------------------------------------- themes and stylesheets
\* the stylesheet files of the model
Files == {"a.css", "b.css"}

RemoveUserThemes ==
    /\ LET r == remove_user_themes(cx, env.unreadable) IN
       /\ cx' = r.c
       /\ last' = [Note("remove_user_themes", cx.current, FALSE, {}, {}) EXCEPT !.res = r.res]
    /\ UNCHANGED <<destroyed, env>>

AddStylesheet ==
    \E path \in Files :
        /\ Len(cx.stylesheets) < MaxSheets
        /\ LET r == add_stylesheet(cx, path, env.unreadable) IN
           /\ cx' = r.c
           /\ last' = [Note("add_stylesheet", cx.current, FALSE, {}, {}) EXCEPT !.res = r.res]
        /\ UNCHANGED <<destroyed, env>>

\* a file is deleted or made unreadable, or comes back
FileChange ==
    \E path \in Files :
        /\ env' = [env EXCEPT !.unreadable =
                      IF path \in @ THEN @ \ {path} ELSE @ \cup {path}]
        /\ last' = Idle
        /\ UNCHANGED <<cx, destroyed>>

StyleNext ==
    \/ AddStylesheet
    \/ FileChange
    \/ AddTheme
    \/ ReloadStyles
    \/ RemoveUserThemes
    \/ NeedRedraw
    \/ NeedRelayout
    \/ RunPasses

StyleSpec == Init /\ [][StyleNext]_vars

StyleOps == {"add_stylesheet", "reload_styles", "add_theme", "remove_user_themes"}

\* C26: no call of add_stylesheet, reload_styles, add_theme or
\* remove_user_themes is left by a panic: when a stylesheet cannot be read the
\* caller gets an error value.
C26_IoErrorsReturned ==
    last.op \in StyleOps =>
        /\ last.res # "Panic"
        /\ (\E k \in 1 .. Len(cx.stylesheets) : cx.stylesheets[k] \in env.unreadable)
               /\ last.op # "add_stylesheet" => last.res = "Err"

\* ------------------------------------------------------- absent components
\* Context::get_node: the node made from the stores alone
get_node(c, e) ==
    LET kids == IF e[1] \in c.tree.nodes THEN c.tree.children[e[1]] ELSE <<>> IN
    [role |-> RoleOf(c, e),
     focusable |-> Navigable(c, e),
     disabled |-> Lookup(c.disabled, e[1], FALSE),
     hidden |-> Lookup(c.hidden, e[1], FALSE),
     children |-> [k \in 1 .. Len(kids) |-> NodeId(entity_at(c, kids[k]))]]

\* Handle::disabled
SetDisabled ==
    \E e \in LiveEntities(cx), b \in BOOLEAN :
        /\ Lookup(cx.disabled, e[1], ~b) # b
        /\ cx' = [cx EXCEPT !.disabled =
                     [x \in (DOMAIN @) \cup {e[1]} |-> IF x = e[1] THEN b ELSE @[x]]]
        /\ last' = Idle
        /\ UNCHANGED <<destroyed, env>>

\* Handle::hidden
SetHidden ==
    \E e \in LiveEntities(cx), b \in BOOLEAN :
        /\ Lookup(cx.hidden, e[1], ~b) # b
        /\ cx' = [cx EXCEPT !.hidden =
                     [x \in (DOMAIN @) \cup {e[1]} |-> IF x = e[1] THEN b ELSE @[x]]]
        /\ last' = Idle
        /\ UNCHANGED <<destroyed, env>>

\* one entity, with or without entries, is created under root
AbsentCreate == destroyed = {} /\ (CreateKind("bare", 2) \/ CreateKind("view", 2))

AbsentNext ==
    \/ AbsentCreate
    \/ SetDisabled
    \/ SetHidden
    \/ Focus
    \/ FocusWithVisibility
    \/ SetSelected
    \/ Remove
    \/ Dispatch

AbsentSpec == Init /\ [][AbsentNext]_vars

\* an entity with no entry in the pseudo-class, abilities, role, disabled,
\* hidden, bindings and views stores
Absent(c, e) ==
    /\ e[1] \notin DOMAIN c.pseudo_classes
    /\ e[1] \notin DOMAIN c.role
    /\ e[1] \notin c.navigable
    /\ e[1] \notin DOMAIN c.disabled
    /\ e[1] \notin DOMAIN c.hidden
    /\ e \notin c.bindings
    /\ e \notin c.views

\* C27: for an entity with no entry in those stores, get_node and
\* get_access_node give role Unknown, not focusable, not disabled, not hidden;
\* focus, focus_with_visibility and set_selected on it, or away from it,
\* complete and create no entry for it; remove of it completes and leaves no
\* entry for it.
C27_AbsentIsNormal ==
    /\ [](\A e \in LiveEntities(cx) :
             Absent(cx, e) =>
                 LET n == get_node(cx, e)
                     a == get_access_node(cx, e).node
                 IN /\ n.role = "Unknown" /\ ~n.focusable /\ ~n.disabled /\ ~n.hidden
                    /\ a.role = "Unknown" /\ ~a.focusable /\ ~a.disabled /\ ~a.hidden)
    /\ [][last'.op \in {"focus", "focus_with_visibility", "set_selected"} =>
            /\ last'.res = "Ok"
            /\ \A e \in {last'.e, cx.focused} :
                  is_alive(cx, e) /\ Absent(cx, e) => Absent(cx', e)]_vars
    /\ [][last'.op = "remove" /\ is_alive(cx, last'.e) /\ Absent(cx, last'.e) =>
            /\ last'.res = "Ok"
            /\ ~is_alive(cx', last'.e)
            /\ Absent(cx', last'.e)]_vars

\* focus moved from one entity without entries to another, which was then
\* selected and removed
C27_Witness ==
    /\ last.op = "remove" /\ last.e \in destroyed /\ last.e # Root
    /\ Absent(cx, last.e)
    /\ last.old = last.e
    /\ Absent(cx, Root) /\ is_alive(cx, Root)

\* ------------------------------------------------------ selector matching
\* the entities, element names, class names and pseudo-class flags of the
\* stores the selectors are matched against
MatchEntities == {0, 1}
ElementNames == {"window", "button"}
ClassNames == {"foo", "bar"}
MatchFlags == {"HOVER"}

\* the maps from some of the entities to values: a HashMap<Entity, V>
PartialMaps(V) == UNION {[S -> V] : S \in SUBSET MatchEntities}

\* Store
MatchStores ==
    [element : PartialMaps(ElementNames),
     classes : PartialMaps(SUBSET ClassNames),
     pseudo_class : PartialMaps(SUBSET MatchFlags)]

\* the tokens of a selector text
Class(n) == [k |-> "class", n |-> n]
Type(n) == [k |-> "type", n |-> n]
Pseudo(n) == [k |-> "pseudo", n |-> n]
Comma == [k |-> "comma", n |-> ","]

\* the selector texts: .c, .a.b, .a, .b, t and t:hover
SelectorTexts ==
    {<<Class(a)>> : a \in ClassNames}
        \cup {<<Class(a), Class(b)>> : a \in ClassNames, b \in ClassNames}
        \cup {<<Class(a), Comma, Class(b)>> : a \in ClassNames, b \in ClassNames}
        \cup {<<Type(t)>> : t \in ElementNames}
        \cup {<<Type(t), Pseudo("hover")>> : t \in ElementNames}

RECURSIVE parse(_)
\* SelectorList::parse: the compound selectors of a text, one for each part
\* between commas
parse(text) ==
    IF text = <<>> THEN <<>>
    ELSE LET cut == IF \E k \in 1 .. Len(text) : text[k] = Comma
                    THEN CHOOSE k \in 1 .. Len(text) :
                             text[k] = Comma /\ \A j \in 1 .. (k - 1) : text[j] # Comma
                    ELSE Len(text) + 1
         IN <<SubSeq(text, 1, cut - 1)>> \o parse(SubSeq(text, cut + 1, Len(text)))

\* Element::has_local_name
has_local_name(store, e, name) ==
    IF e \in DOMAIN store.element THEN store.element[e] = name ELSE FALSE

\* has_class as it would be if it asked only for an entry
has_class_entry(store, e, name) == e \in DOMAIN store.classes

\* Element::has_class
has_class(store, e, name) ==
    IF e \in DOMAIN store.classes THEN name \in store.classes[e] ELSE FALSE

\* Element::match_non_ts_pseudo_class, for :hover
match_non_ts_pseudo_class(store, e, pc) ==
    IF e \in DOMAIN store.pseudo_class
    THEN pc = "hover" /\ "HOVER" \in store.pseudo_class[e]
    ELSE FALSE

\* one component of a compound selector
matches_simple(store, e, comp) ==
    IF comp.k = "class" THEN has_class(store, e, comp.n)
    ELSE IF comp.k = "type" THEN has_local_name(store, e, comp.n)
    ELSE match_non_ts_pseudo_class(store, e, comp.n)

\* matches_selector: every component of the compound matches
matches_selector(store, e, compound) ==
    \A k \in 1 .. Len(compound) : matches_simple(store, e, compound[k])

\* matches_selector_list: some selector of the list matches
matches_selector_list(store, e, list) ==
    \E k \in 1 .. Len(list) : matches_selector(store, e, list[k])

NoMatch == [op |-> "idle", e |-> 0, sel |-> <<>>, result |-> FALSE]

\* any store
MatchInit ==
    /\ cx \in MatchStores
    /\ last = NoMatch
    /\ destroyed = {}
    /\ env = NoEnv

\* a selector text is parsed and matched against an entity
Match ==
    \E text \in SelectorTexts, e \in MatchEntities :
        /\ last' = [op |-> "matches_selector_list", e |-> e, sel |-> text,
                    result |-> matches_selector_list(cx, e, parse(text))]
        /\ UNCHANGED <<cx, destroyed, env>>

MatchSpec == MatchInit /\ [][Match]_vars

\* the classes, the element name and the flags of an entity, empty when the
\* store has no entry for it
ClassesOf(e) == IF e \in DOMAIN cx.classes THEN cx.classes[e] ELSE {}
ElementOf(e) == IF e \in DOMAIN cx.element THEN {cx.element[e]} ELSE {}
FlagsOf(e) == IF e \in DOMAIN cx.pseudo_class THEN cx.pseudo_class[e] ELSE {}

\* C28: .c matches iff the entity's classes contain c, .a.b iff they contain
\* both, the list .a, .b iff they contain one of them, t iff the entity's
\* element name is t, t:hover iff it is t and the entity's flags have HOVER;
\* an entity without entry in the store consulted never matches.
C28_SimpleSelectors ==
    last.op = "matches_selector_list" =>
        LET e == last.e
            t == last.sel
            ks == [k \in 1 .. Len(t) |-> t[k].k]
        IN /\ ks = <<"class">> => (last.result <=> t[1].n \in ClassesOf(e))
           /\ ks = <<"class", "class">> =>
                 (last.result <=> {t[1].n, t[2].n} \subseteq ClassesOf(e))
           /\ ks = <<"class", "comma", "class">> =>
                 (last.result <=> {t[1].n, t[3].n} \cap ClassesOf(e) # {})
           /\ ks = <<"type">> => (last.result <=> t[1].n \in ElementOf(e))
           /\ ks = <<"type", "pseudo">> =>
                 (last.result <=> t[1].n \in ElementOf(e) /\ "HOVER" \in FlagsOf(e))
           /\ ("class" \in SeqToSet(ks) /\ e \notin DOMAIN cx.classes) => ~last.result
           /\ ("type" \in SeqToSet(ks) /\ e \notin DOMAIN cx.element) => ~last.result
           /\ ("pseudo" \in SeqToSet(ks) /\ e \notin DOMAIN cx.pseudo_class) => ~last.result

\* the list .foo, .bar matched an entity that has bar alone, in a store where
\* the other entity has foo and bar
C28_Witness ==
    /\ last.op = "matches_selector_list"
    /\ last.sel = <<Class("foo"), Comma, Class("bar")>>
    /\ last.result
    /\ ClassesOf(last.e) = {"bar"}
    /\ \E o \in MatchEntities \ {last.e} : ClassesOf(o) = {"foo", "bar"}

\* ------------------------------------------------------- order of removal
RECURSIVE remove_log(_, _, _, _)
\* what the loop of Context::remove does, step by step: for each entity of
\* the walk the call of its binding's removal hook, if it has a binding, with
\* the stores that hold an entry for it at that moment, and then its
\* destruction, with the stores that hold one afterwards; c0 is the Context
\* at the call
remove_log(c0, c, todo, dl) ==
    IF todo = <<>> THEN <<>>
    ELSE LET e == Head(todo)
             c2 == remove_entity(c, e, dl)
             rec(kind, cc) ==
                 [kind |-> kind, e |-> e,
                  anc |-> Ancestors(c0, e),
                  had |-> {s \in Stores : HasEntry(c0, s, e)},
                  has |-> {s \in Stores : HasEntry(cc, s, e)},
                  alive |-> is_alive(cc, e)]
         IN (IF e \in c.bindings THEN <<rec("hook", run_binding_hook(c, e))>> ELSE <<>>)
                \o <<rec("destroy", c2)>>
                \o remove_log(c0, c2, Tail(todo), dl)

\* cx.remove(e), with the steps it took
RemoveLogged ==
    \E e \in KnownEntities(cx) :
        /\ Room
        /\ LET dl == delete_list(cx, e) IN
           /\ cx' = remove(cx, e)
           /\ last' = Note("remove", e, FALSE, SeqToSet(dl),
                           {s \in Stores : \E d \in SeqToSet(dl) : HasEntry(cx, s, d)})
           /\ destroyed' = destroyed \cup SeqToSet(dl)
           /\ env' = [env EXCEPT !.removal =
                         remove_log(cx, mark_dirty(cx, dl), Reverse(dl), dl)]

\* entities are created until the first is removed
OrderCreate == destroyed = {} /\ (CreateBare \/ CreateView)

OrderNext ==
    \/ OrderCreate
    \/ Focus
    \/ Dispatch
    \/ RemoveLogged

OrderSpec == Init /\ [][OrderNext]_vars

\* the positions of the steps of a kind
StepsOf(log, kind) == {k \in 1 .. Len(log) : log[k].kind = kind}

\* C29: remove destroys every entity of the subtree after all its
\* descendants, leaving no store entry for it; the removal hook of an
\* entity's binding runs once, before the entity is destroyed and while every
\* store entry it had at the call still exists.
C29_ChildrenFirst ==
    last.op = "remove" =>
        LET log == env.removal IN
        /\ {log[k].e : k \in StepsOf(log, "destroy")} = last.del
        /\ \A i \in StepsOf(log, "destroy"), j \in StepsOf(log, "destroy") :
              log[i].e[1] \in log[j].anc => j < i
        /\ \A i \in StepsOf(log, "destroy") : log[i].has = {} /\ ~log[i].alive
        /\ \A h \in StepsOf(log, "hook") :
              /\ log[h].has = log[h].had /\ log[h].alive
              /\ \E i \in StepsOf(log, "destroy") : log[i].e = log[h].e /\ h < i
              /\ \A g \in StepsOf(log, "hook") : log[g].e = log[h].e => g = h
              /\ \A i \in StepsOf(log, "destroy") :
                    log[h].e[1] \in log[i].anc => i < h

\* a view with a view below it was removed, both with a binding
C29_Witness ==
    /\ last.op = "remove"
    /\ Cardinality(StepsOf(env.removal, "hook")) = 2
    /\ \E i \in StepsOf(env.removal, "destroy") :
          env.removal[i].anc \cap {d[1] : d \in last.del} # {}

\* ------------------------------------------------ focus forces the passes
DirtyNames == {"needs_restyle", "needs_relayout", "needs_redraw"}

\* the dirty flags that are set
DirtyFlags(c) == {f \in DirtyNames : c[f]}

\* cx.with_current(e, |cx| cx.focus()), with the flags that were set at the call
FocusNoted ==
    \E e \in LiveEntities(cx) :
        /\ Room
        /\ cx' = with_current(cx, e, [op |-> "focus"])
        /\ last' = Note("focus", e, HasFlag(cx, cx.focused, "FOCUS_VISIBLE"), {},
                        DirtyFlags(cx))
        /\ UNCHANGED <<destroyed, env>>

\* cx.with_current(e, |cx| cx.focus_with_visibility(fv)), with the flags that
\* were set at the call
FocusWithVisibilityNoted ==
    \E e \in LiveEntities(cx), fv \in BOOLEAN :
        /\ Room
        /\ cx' = with_current(cx, e, [op |-> "focus_with_visibility", fv |-> fv])
        /\ last' = Note("focus_with_visibility", e, fv, {}, DirtyFlags(cx))
        /\ UNCHANGED <<destroyed, env>>

\* an entity without a view, hence without a pseudo-class entry
ForceBare == CreateKind("bare", MaxLife)

ForceNext ==
    \/ ForceBare
    \/ BuildOne
    \/ FocusNoted
    \/ FocusWithVisibilityNoted
    \/ Dispatch
    \/ RunPasses

ForceSpec == Init /\ [][ForceNext]_vars

\* C30: after every call of focus or focus_with_visibility needs_restyle,
\* needs_relayout and needs_redraw are all true, whichever entity is current
\* and whatever the stores hold for it.
C30_FocusForcesPasses == last.op \in FocusOps => DirtyFlags(cx) = DirtyNames

\* focus was called on the entity that already had the focus and that has no
\* pseudo-class entry, while no flag was set
C30_Witness ==
    /\ last.op \in FocusOps
    /\ last.old = last.e /\ cx.focused = last.e
    /\ last.pre = {}
    /\ last.e[1] \notin DOMAIN cx.pseudo_classes
    /\ DirtyFlags(cx) = DirtyNames

\* ------------------------------------------------------ focus visibility
\* views and popups are built, focused with and without visible focus, and
\* removed
VisNext ==
    \/ CreateView
    \/ CreatePopup
    \/ Focus
    \/ FocusWithVisibility
    \/ Remove
    \/ Dispatch

VisSpec == Init /\ [][VisNext]_vars

\* C31: after focus() with current = B, B having a pseudo-class entry, B has
\* FOCUS_VISIBLE exactly if the entity focused before the call had it; when B
\* was that entity its FOCUS_VISIBLE bit is as before.
C31_FocusKeepsVisibility ==
    [][(last'.op = "focus" /\ last'.e[1] \in DOMAIN cx'.pseudo_classes) =>
          (HasFlag(cx', last'.e, "FOCUS_VISIBLE")
              <=> HasFlag(cx, cx.focused, "FOCUS_VISIBLE"))]_vars

\* focus() moved a visible focus from one view to another
C31_Witness ==
    /\ last.op = "focus" /\ last.old # last.e /\ last.fv
    /\ last.e[1] \in DOMAIN cx.pseudo_classes
    /\ cx.focused = last.e
    /\ HasFlag(cx, last.e, "FOCUS_VISIBLE")
    /\ ~HasFlag(cx, last.old, "FOCUS_VISIBLE")

\* C34: at most one entity has the FOCUS pseudo-class, and it is the entity
\* stored in focused; FOCUS_VISIBLE is set only together with FOCUS.
C34_FocusFlagsFollowFocused ==
    \A i \in DOMAIN cx.pseudo_classes :
        /\ "FOCUS" \in cx.pseudo_classes[i] => entity_at(cx, i) = cx.focused
        /\ "FOCUS_VISIBLE" \in cx.pseudo_classes[i] => "FOCUS" \in cx.pseudo_classes[i]

\* ------------------------------------------------------ the event queue
\* cx.with_current(e, |cx| cx.emit_to(target, msg))
EmitTo ==
    \E e \in LiveEntities(cx), target \in LiveEntities(cx) :
        /\ Len(cx.event_queue) < MaxQueue
        /\ env.emitted < Len(Msgs)
        /\ cx' = with_current(cx, e, [op |-> "emit_to", target |-> target,
                                      msg |-> Msgs[env.emitted + 1]])
        /\ env' = [env EXCEPT !.emitted = @ + 1]
        /\ last' = Note("emit_to", e, FALSE, {target}, {})
        /\ UNCHANGED destroyed

\* cx.emit_custom(event) for an event with any target, origin and propagation;
\* the event given is noted
EmitCustomGiven ==
    \E t \in LiveEntities(cx), o \in LiveEntities(cx), prop \in {"Direct", "Up"} :
        /\ Len(cx.event_queue) < MaxQueue
        /\ env.emitted < Len(Msgs)
        /\ LET event == Event(Msgs[env.emitted + 1], t, o, prop) IN
           /\ cx' = emit_custom(cx, event)
           /\ last' = Note("emit_custom", t, FALSE, {}, {event})
        /\ env' = [env EXCEPT !.emitted = @ + 1]
        /\ UNCHANGED destroyed

QueueNext ==
    \/ BuildOne
    \/ Emit
    \/ EmitTo
    \/ EmitCustomGiven
    \/ Dispatch

QueueSpec == Init /\ [][QueueNext]_vars

\* C32: emit appends an event with target = origin = the current entity and
\* Up propagation, emit_to one with the given target, the current entity as
\* origin and Direct propagation, emit_custom the given event as it is; the
\* events queued before stay as they were, in their order, in front of it.
C32_EmitAppends ==
    [][/\ last'.op = "emit" =>
            cx'.event_queue =
                Append(cx.event_queue,
                       [message |-> Msgs[env'.emitted], target |-> last'.e,
                        origin |-> last'.e, propagation |-> "Up"])
       /\ last'.op = "emit_to" =>
            \E target \in last'.del :
                cx'.event_queue =
                    Append(cx.event_queue,
                           [message |-> Msgs[env'.emitted], target |-> target,
                            origin |-> last'.e, propagation |-> "Direct"])
       /\ last'.op = "emit_custom" =>
            \E event \in last'.pre :
                cx'.event_queue = Append(cx.event_queue, event)]_vars

\* emit_custom was given an event whose origin is neither its target nor the
\* current entity while another event was queued
C32_Witness ==
    /\ last.op = "emit_custom"
    /\ Len(cx.event_queue) >= 2
    /\ LET event == cx.event_queue[Len(cx.event_queue)] IN
       /\ event \in last.pre
       /\ event.origin # cx.current /\ event.origin # event.target

\* ------------------------------------------------- the incremental pass
\* the entities an incremental pass owes a batch: those of the layout tree, in
\* layout order, that are marked and have a known role or are navigable
Due(c) ==
    SelectSeq(LayoutTreeIterator_full(c),
              LAMBDA e : e[1] \in c.reaccess
                         /\ (RoleOf(c, e) # "Unknown" \/ Navigable(c, e)))

\* the ids of the nodes a view adds for its entity
ExtraIds(c, e) ==
    IF e \in c.views
    THEN [k \in 1 .. Len(view_accessibility(c, e)) |-> view_accessibility(c, e)[k].id]
    ELSE <<>>

\* C33: an incremental pass appends to tree_updates one batch for each marked
\* entity of the layout tree that has a known role or is navigable, in layout
\* order; the batch lists the entity's node and then the nodes its view added;
\* the reaccess set is empty when the pass returns.
C33_OneBatchEach ==
    [][last'.op = "accessibility_system" =>
          LET old == cx.tree_updates
              new == cx'.tree_updates
              due == Due(cx)
          IN /\ Len(new) = Len(old) + Len(due)
             /\ SubSeq(new, 1, Len(old)) = old
             /\ \A k \in 1 .. Len(due) :
                   [j \in 1 .. Len(new[Len(old) + k].nodes) |->
                       new[Len(old) + k].nodes[j].id]
                       = <<NodeId(due[k])>> \o ExtraIds(cx, due[k])
             /\ cx'.reaccess = {}]_vars

\* a pass emitted two batches, one of them with a node added by the view, and
\* left out a marked entity
C33_Witness ==
    /\ last.op = "accessibility_system"
    /\ Len(cx.tree_updates) = 2
    /\ \E k \in 1 .. 2 : Len(cx.tree_updates[k].nodes) > 1
    /\ \E i \in last.del : \A k \in 1 .. 2 : cx.tree_updates[k].nodes[1].id.of[1] # i
    /\ cx.reaccess = {}

\* ----------------------------------------------- what remove leaves behind
\* C35: after remove(E) the bindings store holds no entry for E or for any
\* entity that was below E.
C35_BindingsErased ==
    last.op = "remove" => \A d \in last.del : d \notin cx.bindings

\* the hover system: the entity under the cursor becomes the hovered one
SetHovered ==
    \E e \in LiveEntities(cx) :
        /\ cx.hovered # e
        /\ cx' = [cx EXCEPT !.hovered = e]
        /\ last' = Idle
        /\ UNCHANGED <<destroyed, env>>

HoverNext ==
    \/ CreateView
    \/ SetHovered
    \/ SetCaptured
    \/ Remove

HoverSpec == Init /\ [][HoverNext]_vars

\* C36: after remove(E) hovered names neither E nor an entity that was below
\* E.
C36_HoveredNeverDangles ==
    last.op = "remove" => cx.hovered \notin last.del

\* C37: remove(E) of a live entity whose subtree does not hold the focused
\* entity leaves focused, focus_stack, current and the event queue as they
\* were, and every entity outside the subtree alive, with the pseudo-classes
\* and the store entries it had.
C37_RemoveFrame ==
    [][(last'.op = "remove" /\ is_alive(cx, last'.e) /\ cx.focused \notin last'.del) =>
          /\ cx'.focused = cx.focused
          /\ cx'.focus_stack = cx.focus_stack
          /\ cx'.current = cx.current
          /\ cx'.event_queue = cx.event_queue
          /\ \A e \in LiveEntities(cx) \ last'.del :
                /\ is_alive(cx', e)
                /\ \A s \in Stores : HasEntry(cx', s, e) <=> HasEntry(cx, s, e)
                /\ e[1] \in DOMAIN cx.pseudo_classes =>
                      cx'.pseudo_classes[e[1]] = cx.pseudo_classes[e[1]]
                /\ e \in cx'.bindings <=> e \in cx.bindings]_vars

\* an entity was removed while a live view outside its subtree had the focus,
\* the focus stack held an entry and events were queued
C37_Witness ==
    /\ last.op = "remove" /\ last.del # {} /\ last.e \in last.del
    /\ cx.focused \notin last.del /\ is_alive(cx, cx.focused)
    /\ HasFlag(cx, cx.focused, "FOCUS")
    /\ last.old = cx.focused
    /\ last.stk # <<>> /\ last.stk = cx.focus_stack
    /\ cx.event_queue # <<>>

====
